---- MODULE Spec2Model ----
(***************************************************************************)
(* Model of the carbon dataflow runtime core (src/carbon/core,             *)
(* src/carbon/data/data.py): input queues, data methods, connections, the  *)
(* execution-graph planner and the threaded executor.                      *)
(*                                                                         *)
(* Naming.  The sources are in the middle of a rename: datamethod.py says  *)
(* sinks / sources / merge_sink_index / split_source_index where           *)
(* connection.py and execution.py say consumers / producers /              *)
(* merge_consumer_index / split_producer_index.  The model treats each     *)
(* pair of names as one field and keeps the datamethod.py spelling.        *)
(*                                                                         *)
(* A queue item is a record [v, s]: v is the payload, s is a ghost tag     *)
(* that remembers whether the item was appended with sync=True (the code   *)
(* stores only the payload row).                                           *)
(***************************************************************************)
EXTENDS Integers, Sequences, FiniteSets, TLC

\* ---------------------------------------------------------------- bounds
MaxQueueSize == 2
MaxAppends == 4
MaxSinks == 2
MaxReceives == 3
MaxLog == 3
MaxConnections == 2
MaxBlocked == 1
MaxSeq == 3
MaxCreates == 2
MaxRaceQueueSize == 3
MaxBuffered == 3

\* ExecutionGraph.reactive_threads
reactive_threads == TRUE

VARIABLES
    queue,          \* SpecQueue: the DataQueue under test
    dropped,        \* ghost: what the last append evicted, and num_sync_items then
    popped,         \* ghost: the item returned by the last pop
    appends,        \* ghost: number of append calls so far
    methods,        \* the DataMethods of the module tree (Module.get_methods)
    sinks,          \* [method -> number of consumer slots]  (len(self.sinks))
    sources,        \* [method -> number of producer slots]  (len(self.sources))
    input_queue,    \* [method -> [sink_index -> DataQueue]]
    remaining_for_execution,        \* [method -> set of sink indices]
    dependency_to_configuration,    \* [method -> dict as a sequence of entries]
    dependent_to_configuration,     \* [method -> dict as a sequence of entries]
    call_log,       \* ghost: [method -> the argument lists its callable was invoked with]
    receives,       \* ghost: number of receive_data calls so far
    events,         \* ghost: the calls so far, in order: the dependency of each
                    \* receive_data, the method itself for each logged execute
    connections,    \* the Connection objects created so far
    graph_phase,    \* "assembling", then "built" or "cycle" (ExecutionGraph.__init__)
    processes,      \* ExecutionGraph.processes: [process index -> set of methods]
    process_mapping,            \* [method -> process index]
    layers,                     \* list of sets of methods
    layer_mapping,              \* [method -> index of its layer]
    process_layer_mapping,      \* [process index -> list of sets of methods]
    in_process_layer_mapping,   \* [method -> index of its layer within its process]
    process_readiness,          \* [process index -> BOOLEAN]
    scenario,       \* SpecExec: the graph that is executed
    process_exited_manually,    \* [process index -> BOOLEAN]
    threads,        \* [process index -> "none", "new", "alive" or "finished"]
    worker,         \* [process index -> locals of _execute_process_group]
    stop_event,     \* the stop Event
    main_pc,        \* position of the main thread in execute()
    main_next,      \* execute(): the next process index of the thread-creating loop
    callables_return, \* whether every user callable returns a value of its arity
    monitor_pc,     \* position of the monitor thread
    ready_processes,            \* the monitor's list of ready processes, still to visit
    emitted,        \* [method -> records a source has emitted, counted up to MaxSeq]
    failed,         \* ghost: the processes whose worker died of a failed execution
    modules,        \* SpecModule: [module -> its child modules]  (Module._modules)
    module_connections,     \* [module -> keys of Module._connections]
    blocked_connections,    \* [module -> keys of Module._blocked_connections]
    blocked_flags,  \* the Connection objects <<owner, key>> whose blocked flag is set
    connected,      \* [key -> Connected entries its constructions have registered]
    last_call,      \* ghost: the last call on a module and how it ended
    appender,       \* SpecRace: the producer's thread inside DataQueue.append
    popper,         \* the consumer's thread inside DataQueue.pop
    pop_log,        \* ghost: the values the pops have returned, in order
    evicted,        \* ghost: the values dropped by the overflow test of an append
    receiver,       \* SpecHandoff: the producer's worker inside receive_data
    executor        \* the consumer's worker inside pop_data_for_execution

queueVars == <<queue, dropped, popped, appends>>
methodVars == <<methods, sinks, sources, input_queue, remaining_for_execution,
                dependency_to_configuration, dependent_to_configuration,
                call_log, receives, events>>
graphVars == <<connections, graph_phase, processes, process_mapping, layers,
               layer_mapping, process_layer_mapping, in_process_layer_mapping,
               process_readiness>>
execVars == <<scenario, process_exited_manually, threads, worker, stop_event,
              main_pc, main_next, callables_return, monitor_pc, ready_processes, emitted, failed>>
moduleVars == <<modules, module_connections, blocked_connections, blocked_flags, connected,
                last_call>>
raceVars == <<appender, popper, pop_log, evicted>>
handoffVars == <<receiver, executor>>
vars == <<queue, dropped, popped, appends, methods, sinks, sources, input_queue,
          remaining_for_execution, dependency_to_configuration,
          dependent_to_configuration, call_log, receives, events, connections,
          graph_phase, processes, process_mapping, layers, layer_mapping,
          process_layer_mapping, in_process_layer_mapping, process_readiness,
          scenario, process_exited_manually, threads, worker, stop_event,
          main_pc, main_next, callables_return, monitor_pc, ready_processes, emitted,
          failed, modules, module_connections, blocked_connections, blocked_flags, connected,
          last_call, appender, popper, pop_log, evicted, receiver, executor>>

\* ------------------------------------------------------------- DataQueue
NoItem == [v |-> 0, s |-> FALSE]
NoDrop == [item |-> NoItem, num_sync_items |-> 0, any |-> FALSE]

DataQueue(size, sticky) ==
    [arrow_table |-> <<>>, num_sync_items |-> 0, size |-> size, sticky |-> sticky]

\* Mutant of AppendTable: the overflow test forgets the eviction.
AppendTableNoEvict(q, item) ==
    [q EXCEPT !.arrow_table = Append(q.arrow_table, item)]

AppendTable(q, item) ==
    LET table_to_merge ==
            IF Len(q.arrow_table) >= q.size + q.num_sync_items
            THEN Tail(q.arrow_table)
            ELSE q.arrow_table
    IN [q EXCEPT !.arrow_table = Append(table_to_merge, item)]

\* The row that AppendTable evicts (NoDrop when it evicts nothing).
EvictedBy(q, sync) ==
    LET n == IF sync THEN q.num_sync_items + 1 ELSE q.num_sync_items
    IN IF Len(q.arrow_table) >= q.size + n
       THEN [item |-> Head(q.arrow_table), num_sync_items |-> n, any |-> TRUE]
       ELSE NoDrop

\* Mutant of QueueAppend: every append counts as a sync one.
QueueAppendCountsAll(q, v, sync) ==
    AppendTable([q EXCEPT !.num_sync_items = @ + 1], [v |-> v, s |-> sync])

QueueAppend(q, v, sync) ==
    LET q1 == IF sync THEN [q EXCEPT !.num_sync_items = @ + 1] ELSE q
    IN AppendTable(q1, [v |-> v, s |-> sync])

IsEmpty(q) == Len(q.arrow_table) = 0

\* Mutant of PopTable: the sticky test is dropped, the head is always removed.
PopTableNoSticky(q) ==
    [q EXCEPT !.arrow_table = Tail(q.arrow_table)]

PopTable(q) ==
    IF q.sticky /\ Len(q.arrow_table) = 1
    THEN q
    ELSE [q EXCEPT !.arrow_table = Tail(q.arrow_table)]

\* pop(): the state of the queue afterwards; the returned row is PopValue.
QueuePop(q) ==
    LET q1 == IF q.num_sync_items > 0 THEN [q EXCEPT !.num_sync_items = @ - 1] ELSE q
    IN PopTable(q1)

PopValue(q) == Head(q.arrow_table)

\* ------------------------------------------------------------ DataMethod
None == -1

sink_indices(n) == 0 .. (n - 1)

\* A dict with insertion order: a sequence of entries with distinct keys.
DictHas(dict, key) == \E i \in 1..Len(dict) : dict[i].key = key

DictGet(dict, key) == dict[CHOOSE i \in 1..Len(dict) : dict[i].key = key]

DictSet(dict, entry) ==
    IF DictHas(dict, entry.key)
    THEN [i \in 1..Len(dict) |-> IF dict[i].key = entry.key THEN entry ELSE dict[i]]
    ELSE Append(dict, entry)

DependencyConfiguration(dependency, merge_sink_index, sync) ==
    [key |-> dependency, merge_sink_index |-> merge_sink_index, sync |-> sync,
     active |-> TRUE]

DependentConfiguration(dependent, split_source_index, sync) ==
    [key |-> dependent, split_source_index |-> split_source_index, sync |-> sync,
     active |-> TRUE]

\* The state of one DataMethod that receive_data and execute touch.
MethodState(m) ==
    [input_queue |-> input_queue[m],
     remaining_for_execution |-> remaining_for_execution[m]]

NewMethodState(n, size, sticky) ==
    [input_queue |-> [i \in sink_indices(n) |-> DataQueue(size[i], sticky[i])],
     remaining_for_execution |-> sink_indices(n)]

is_ready_for_execution(ms) == ms.remaining_for_execution = {}

\* The loop of pop_data_for_execution from slot i on.  A pop of an empty
\* queue raises and ends the loop with the slots before it already popped.
RECURSIVE PopLoopKeepRemaining(_, _, _)
\* Mutant of PopLoop: a drained slot is not put back into the remaining set.
PopLoopKeepRemaining(ms, i, n) ==
    IF i >= n \/ IsEmpty(ms.input_queue[i])
    THEN ms
    ELSE PopLoopKeepRemaining(
             [ms EXCEPT !.input_queue[i] = QueuePop(ms.input_queue[i])], i + 1, n)

RECURSIVE PopLoop(_, _, _)
PopLoop(ms, i, n) ==
    IF i >= n \/ IsEmpty(ms.input_queue[i])
    THEN ms
    ELSE LET q == QueuePop(ms.input_queue[i])
         IN PopLoop([input_queue |-> [ms.input_queue EXCEPT ![i] = q],
                     remaining_for_execution |->
                         IF IsEmpty(q)
                         THEN ms.remaining_for_execution \cup {i}
                         ELSE ms.remaining_for_execution],
                    i + 1, n)

pop_data_for_execution(ms, n) == PopLoop(ms, 0, n)

\* The list pop_data_for_execution returns: one payload per slot, in slot order.
PoppedData(ms, n) == [i \in 1..n |-> PopValue(ms.input_queue[i - 1]).v]

\* The direct branch of receive_data: zip(self.sink_indices, data).
RECURSIVE ReceiveLoop(_, _, _, _, _)
ReceiveLoop(ms, i, n, data, sync) ==
    IF i >= n \/ i >= Len(data)
    THEN ms
    ELSE ReceiveLoop(
             [input_queue |-> [ms.input_queue EXCEPT
                                  ![i] = QueueAppend(@, data[i + 1], sync)],
              remaining_for_execution |-> ms.remaining_for_execution \ {i}],
             i + 1, n, data, sync)

\* Mutant of receive_data: a MERGE delivery goes to slot 0 whatever its
\* merge_sink_index.
receive_dataFirstSlot(ms, n, configuration, data) ==
    IF configuration.merge_sink_index = None
    THEN ReceiveLoop(ms, 0, n, data, configuration.sync)
    ELSE [input_queue |-> [ms.input_queue EXCEPT
                              ![0] = QueueAppend(@, data[1], configuration.sync)],
          remaining_for_execution |-> ms.remaining_for_execution \ {0}]

\* receive_data(dependency, data); data is a tuple of payloads.
receive_data(ms, n, configuration, data) ==
    IF configuration.merge_sink_index = None
    THEN ReceiveLoop(ms, 0, n, data, configuration.sync)
    ELSE LET k == configuration.merge_sink_index
         IN [input_queue |-> [ms.input_queue EXCEPT
                                 ![k] = QueueAppend(@, data[1], configuration.sync)],
             remaining_for_execution |-> ms.remaining_for_execution \ {k}]

\* The ghost log keeps the first MaxLog calls.
LogCall(log, args) ==
    IF Len(log) < MaxLog
    THEN Append(log, args)
    ELSE log

\* ------------------------------------------------------------ Connection
\* A Connection, with its endpoints already resolved to DataMethods.  Its
\* identity (__eq__, __hash__) is the pair (producer_methods, consumer_methods):
\* the data tuple is fixed by the endpoints.
ConnectionType(producer_methods, consumer_methods) ==
    IF Len(producer_methods) > 1 THEN "merge"
    ELSE IF Len(consumer_methods) > 1 THEN "split"
    ELSE "direct"

Connection(producer_methods, consumer_methods, sync) ==
    [producer_methods |-> producer_methods, consumer_methods |-> consumer_methods,
     sync |-> sync, active |-> TRUE,
     type |-> ConnectionType(producer_methods, consumer_methods)]

ConnectionKey(c) == <<c.producer_methods, c.consumer_methods>>

\* The (producer, consumer) pairs of a connection in the order of the nested
\* loops of Connection.__init__ and Connection.block.
ConnectionPairs(c) ==
    LET np == Len(c.producer_methods)
        nc == Len(c.consumer_methods)
    IN [k \in 1..(np * nc) |->
           [producer_index |-> (k - 1) \div nc,
            consumer_index |-> (k - 1) % nc,
            producer |-> c.producer_methods[((k - 1) \div nc) + 1],
            consumer |-> c.consumer_methods[((k - 1) % nc) + 1]]]

PairSet(c) == {<<ConnectionPairs(c)[k].producer, ConnectionPairs(c)[k].consumer>> :
                  k \in 1..Len(ConnectionPairs(c))}

\* The two dicts of all methods, as Connection.__init__ and block update them.
Configs(deps, dependents) == [dependency |-> deps, dependent |-> dependents]

\* add_dependency / add_dependent for the pairs k.. of connection c.
RECURSIVE AddPairs(_, _, _)
AddPairs(cfg, c, k) ==
    IF k > Len(ConnectionPairs(c))
    THEN cfg
    ELSE LET pr == ConnectionPairs(c)[k]
             merge_sink_index == IF c.type = "direct" THEN None ELSE pr.producer_index
             split_source_index == IF c.type = "direct" THEN None ELSE pr.consumer_index
         IN AddPairs(
                [dependency |-> [cfg.dependency EXCEPT ![pr.consumer] =
                     DictSet(@, DependencyConfiguration(pr.producer, merge_sink_index,
                                                        c.sync))],
                 dependent |-> [cfg.dependent EXCEPT ![pr.producer] =
                     DictSet(@, DependentConfiguration(pr.consumer, split_source_index,
                                                       c.sync))]],
                c, k + 1)

\* Mutant of DictDeactivate: the flag is flipped instead of cleared.
DictToggle(dict, key) ==
    [i \in 1..Len(dict) |->
        IF dict[i].key = key THEN [dict[i] EXCEPT !.active = ~@] ELSE dict[i]]

DictDeactivate(dict, key) ==
    [i \in 1..Len(dict) |->
        IF dict[i].key = key THEN [dict[i] EXCEPT !.active = FALSE] ELSE dict[i]]

RECURSIVE BlockPairsDependencyOnly(_, _, _)
\* Mutant of BlockPairs: block_dependent is forgotten.
BlockPairsDependencyOnly(cfg, c, k) ==
    IF k > Len(ConnectionPairs(c))
    THEN cfg
    ELSE LET pr == ConnectionPairs(c)[k]
         IN BlockPairsDependencyOnly(
                [dependency |-> [cfg.dependency EXCEPT ![pr.consumer] =
                                    DictDeactivate(@, pr.producer)],
                 dependent |-> cfg.dependent],
                c, k + 1)

\* block_dependency / block_dependent for the pairs k.. of connection c.
RECURSIVE BlockPairs(_, _, _)
BlockPairs(cfg, c, k) ==
    IF k > Len(ConnectionPairs(c))
    THEN cfg
    ELSE LET pr == ConnectionPairs(c)[k]
         IN BlockPairs(
                [dependency |-> [cfg.dependency EXCEPT ![pr.consumer] =
                                    DictDeactivate(@, pr.producer)],
                 dependent |-> [cfg.dependent EXCEPT ![pr.producer] =
                                    DictDeactivate(@, pr.consumer)]],
                c, k + 1)

\* ------------------------------------------- DataMethod: active entries
active_dependency_generator(dict) == SelectSeq(dict, LAMBDA e : e.active)

active_dependent_generator(dict) == SelectSeq(dict, LAMBDA e : e.active)

active_dependencies(dict) ==
    {dict[i].key : i \in {j \in 1..Len(dict) : dict[j].active}}

\* -------------------------------------------------------- ExecutionGraph
\* The orders in which a Python set of the given methods may be iterated.
IterationOrders(ms) ==
    {o \in [1..Cardinality(ms) -> ms] : \A i, j \in 1..Cardinality(ms) : o[i] = o[j] => i = j}

\* The body of the loops of _build_processes for one sync dependency.
MergeGroups(st, method, dependency) ==
    LET node_group == st.group_mapping[method]
        dependency_group == st.group_mapping[dependency]
        merged_group == st.groups[dependency_group] \cup st.groups[node_group]
    IN IF node_group # dependency_group
       THEN [groups |-> [g \in (DOMAIN st.groups) \ {node_group} |->
                            IF g = dependency_group THEN merged_group ELSE st.groups[g]],
             group_mapping |-> [x \in DOMAIN st.group_mapping |->
                                   IF x \in merged_group THEN dependency_group
                                   ELSE st.group_mapping[x]]]
       ELSE st

RECURSIVE BuildProcessesLoopAnyEdge(_, _, _, _, _)
\* Mutant of BuildProcessesLoop: the sync test is dropped, async edges merge too.
BuildProcessesLoopAnyEdge(st, deps, order, i, j) ==
    IF i > Len(order)
    THEN st
    ELSE LET method == order[i]
             gen == active_dependency_generator(deps[method])
         IN IF j > Len(gen)
            THEN BuildProcessesLoopAnyEdge(st, deps, order, i + 1, 1)
            ELSE BuildProcessesLoopAnyEdge(MergeGroups(st, method, gen[j].key),
                                           deps, order, i, j + 1)

\* The loops of _build_processes: method order[i], entry j of its active
\* dependencies.
RECURSIVE BuildProcessesLoop(_, _, _, _, _)
BuildProcessesLoop(st, deps, order, i, j) ==
    IF i > Len(order)
    THEN st
    ELSE LET method == order[i]
             gen == active_dependency_generator(deps[method])
         IN IF j > Len(gen)
            THEN BuildProcessesLoop(st, deps, order, i + 1, 1)
            ELSE BuildProcessesLoop(
                     IF gen[j].sync THEN MergeGroups(st, method, gen[j].key) ELSE st,
                     deps, order, i, j + 1)

\* _build_processes(methods); order is the iteration order of the set.
build_processes(deps, order) ==
    BuildProcessesLoop(
        [groups |-> [index \in 0..(Len(order) - 1) |-> {order[index + 1]}],
         group_mapping |-> [m \in {order[i] : i \in 1..Len(order)} |->
                               (CHOOSE i \in 1..Len(order) : order[i] = m) - 1]],
        deps, order, 1, 1)

\* Mutant of RemainingDependencies: only the sync dependencies are counted.
RemainingDependenciesSyncOnly(deps, ms) ==
    [m \in ms |-> Cardinality({deps[m][i].key :
                      i \in {j \in 1..Len(deps[m]) : deps[m][j].active /\ deps[m][j].sync}})]

\* Mutant of RemainingDependencies: a method does not count itself.
RemainingDependenciesNoSelf(deps, ms) ==
    [m \in ms |-> Cardinality(active_dependencies(deps[m]) \ {m})]

\* remaining_dependencies at the start of _build_layers.
RemainingDependencies(deps, ms) ==
    [m \in ms |-> Cardinality(active_dependencies(deps[m]))]

\* A set of methods as a list.  The loops of _build_layers over such lists only
\* fill sets and subtract from counters, so their result does not depend on
\* the order; the ascending one is used.
RECURSIVE ListOf(_)
ListOf(S) ==
    IF S = {} THEN << >>
    ELSE LET x == CHOOSE y \in S : \A z \in S : y <= z
         IN <<x>> \o ListOf(S \ {x})

\* The body of "for method in current_level" in _build_layers.
LayerVisit(st, method, mapping, dependents) ==
    LET process_index == mapping[method]
        plm == st.process_layer_mapping[process_index]
        new_layer == st.process_previous_level_index[process_index] < st.level_index
        plm2 == IF new_layer
                THEN Append(plm, {method})
                ELSE [plm EXCEPT ![Len(plm)] = @ \cup {method}]
        gen == active_dependent_generator(dependents[method])
        targets == {gen[i].key : i \in 1..Len(gen)}
    IN [st EXCEPT
           !.layer_mapping = (method :> st.level_index) @@ @,
           !.process_layer_mapping[process_index] = plm2,
           !.process_previous_level_index[process_index] =
               IF new_layer THEN st.level_index ELSE @,
           !.in_process_layer_mapping = (method :> (Len(plm2) - 1)) @@ @,
           !.remaining_methods = @ \ {method},
           !.remaining_dependencies =
               [x \in DOMAIN @ |-> IF x \in targets THEN @[x] - 1 ELSE @[x]]]

RECURSIVE LayerVisitAll(_, _, _, _, _)
LayerVisitAll(st, current_level, k, mapping, dependents) ==
    IF k > Len(current_level)
    THEN st
    ELSE LayerVisitAll(LayerVisit(st, current_level[k], mapping, dependents),
                       current_level, k + 1, mapping, dependents)

RECURSIVE BuildLayersLoopNoCycleCheck(_, _, _)
\* Mutant of BuildLayersLoop: an empty level ends the loop without an error.
BuildLayersLoopNoCycleCheck(st, mapping, dependents) ==
    IF st.remaining_methods = {}
    THEN st
    ELSE LET current_level == ListOf({m \in st.remaining_methods :
                                         st.remaining_dependencies[m] = 0})
         IN IF current_level = << >>
            THEN st
            ELSE LET st1 == [st EXCEPT !.layers = Append(@, {current_level[k] :
                                                   k \in 1..Len(current_level)})]
                     st2 == LayerVisitAll(st1, current_level, 1, mapping, dependents)
                 IN BuildLayersLoopNoCycleCheck([st2 EXCEPT !.level_index = @ + 1],
                                                mapping, dependents)

\* "while remaining_methods" of _build_layers; error is the ValueError.
RECURSIVE BuildLayersLoop(_, _, _)
BuildLayersLoop(st, mapping, dependents) ==
    IF st.remaining_methods = {}
    THEN st
    ELSE LET current_level == ListOf({m \in st.remaining_methods :
                                         st.remaining_dependencies[m] = 0})
         IN IF current_level = << >>
            THEN [st EXCEPT !.error = TRUE]
            ELSE LET st1 == [st EXCEPT !.layers = Append(@, {current_level[k] :
                                                   k \in 1..Len(current_level)})]
                     st2 == LayerVisitAll(st1, current_level, 1, mapping, dependents)
                 IN BuildLayersLoop([st2 EXCEPT !.level_index = @ + 1],
                                    mapping, dependents)

\* _build_layers(methods), given self.processes and self.process_mapping.
build_layers(ms, deps, dependents, groups, mapping) ==
    BuildLayersLoop(
        [remaining_dependencies |-> RemainingDependencies(deps, ms),
         layers |-> << >>,
         layer_mapping |-> << >>,
         process_layer_mapping |-> [index \in DOMAIN groups |-> << >>],
         process_previous_level_index |-> [index \in DOMAIN groups |-> -1],
         in_process_layer_mapping |-> << >>,
         remaining_methods |-> ms,
         level_index |-> 0,
         error |-> FALSE],
        mapping, dependents)

\* process_readiness of ExecutionGraph.__init__.
ProcessReadiness(groups, plm, iq_remaining) ==
    [process_index \in DOMAIN groups |->
        \E method \in plm[process_index][1] : iq_remaining[method] = {}]

\* Values of the variables a specification does not use.
QueueIdle ==
    /\ queue = DataQueue(1, FALSE)
    /\ dropped = NoDrop
    /\ popped = NoItem
    /\ appends = 0

MethodIdle ==
    /\ methods = {}
    /\ sinks = << >>
    /\ sources = << >>
    /\ input_queue = << >>
    /\ remaining_for_execution = << >>
    /\ dependency_to_configuration = << >>
    /\ dependent_to_configuration = << >>
    /\ call_log = << >>
    /\ receives = 0
    /\ events = << >>

GraphIdle ==
    /\ connections = {}
    /\ graph_phase = "assembling"
    /\ processes = << >>
    /\ process_mapping = << >>
    /\ layers = << >>
    /\ layer_mapping = << >>
    /\ process_layer_mapping = << >>
    /\ in_process_layer_mapping = << >>
    /\ process_readiness = << >>

ExecIdle ==
    /\ scenario = "none"
    /\ process_exited_manually = << >>
    /\ threads = << >>
    /\ worker = << >>
    /\ stop_event = FALSE
    /\ main_pc = "create"
    /\ main_next = 0
    /\ callables_return = TRUE
    /\ monitor_pc = "unstarted"
    /\ ready_processes = << >>
    /\ emitted = << >>
    /\ failed = {}

NoCall == [op |-> "none", duplicate |-> FALSE, refused |-> FALSE]

ModuleIdle ==
    /\ modules = << >>
    /\ module_connections = << >>
    /\ blocked_connections = << >>
    /\ blocked_flags = {}
    /\ connected = << >>
    /\ last_call = NoCall

Idle == [pc |-> "idle", table |-> << >>]

RaceIdle ==
    /\ appender = Idle
    /\ popper = Idle
    /\ pop_log = << >>
    /\ evicted = {}

\* A thread that is in neither function.
Outside == [pc |-> "idle", sink_index |-> 0, empty |-> FALSE]

HandoffIdle ==
    /\ receiver = Outside
    /\ executor = Outside

\* --------------------------------------------------- SpecQueue: one queue
QInit ==
    /\ MethodIdle
    /\ GraphIdle
    /\ ExecIdle
    /\ ModuleIdle
    /\ RaceIdle
    /\ HandoffIdle
    /\ \E size \in 1..MaxQueueSize, sticky \in BOOLEAN : queue = DataQueue(size, sticky)
    /\ dropped = NoDrop
    /\ popped = NoItem
    /\ appends = 0

QAppend ==
    /\ appends < MaxAppends
    /\ \E sync \in BOOLEAN :
         /\ queue' = QueueAppend(queue, appends + 1, sync)
         /\ dropped' = EvictedBy(queue, sync)
    /\ appends' = appends + 1
    /\ UNCHANGED popped
    /\ UNCHANGED <<methodVars, graphVars, execVars, moduleVars, raceVars, handoffVars>>

QPop ==
    /\ ~IsEmpty(queue)
    /\ popped' = PopValue(queue)
    /\ queue' = QueuePop(queue)
    /\ dropped' = NoDrop
    /\ UNCHANGED appends
    /\ UNCHANGED <<methodVars, graphVars, execVars, moduleVars, raceVars, handoffVars>>

QNext == QAppend \/ QPop

SpecQueue == QInit /\ [][QNext]_vars

\* C1: the number of buffered items never exceeds capacity + pending_sync.
QueueBounded ==
    Len(queue.arrow_table) <= queue.size + queue.num_sync_items

\* C1 witness: an append evicted a row and the queue sits exactly at its bound.
QueueBoundedWitness ==
    /\ dropped.any
    /\ Len(queue.arrow_table) = queue.size + queue.num_sync_items

\* C2: when an append evicts a row while pending_sync > 0, the evicted row
\* is not a sync-tagged one.
SyncItemNeverEvicted ==
    (dropped.any /\ dropped.num_sync_items > 0) => ~dropped.item.s

\* ------------------------------------------- SpecMethod: one DataMethod
\* Method 1 is the method under test, with n consumer slots.  Method 2 feeds
\* it through a DIRECT connection; methods 3 and 4 feed slots 0 and 1
\* through a MERGE connection (n = 2 only).
MInit ==
    /\ QueueIdle
    /\ ModuleIdle
    /\ RaceIdle
    /\ HandoffIdle
    /\ GraphIdle
    /\ ExecIdle
    /\ methods = 1..4
    /\ \E n \in 0..MaxSinks :
         /\ sinks = [m \in 1..4 |-> IF m = 1 THEN n ELSE 0]
         /\ sources = [m \in 1..4 |-> IF m = 1 THEN 0 ELSE IF m = 2 THEN n ELSE 1]
         /\ \E size \in [sink_indices(n) -> 1..MaxQueueSize],
               sticky \in [sink_indices(n) -> BOOLEAN] :
              LET ms == NewMethodState(n, size, sticky)
                  empty == NewMethodState(0, << >>, << >>)
              IN /\ input_queue = [m \in 1..4 |->
                        IF m = 1 THEN ms.input_queue ELSE empty.input_queue]
                 /\ remaining_for_execution = [m \in 1..4 |->
                        IF m = 1 THEN ms.remaining_for_execution ELSE {}]
         /\ \E dsync \in BOOLEAN, msync \in BOOLEAN :
              LET direct == IF n >= 1
                            THEN <<DependencyConfiguration(2, None, dsync)>>
                            ELSE << >>
                  merge == IF n >= 2
                           THEN <<DependencyConfiguration(3, 0, msync),
                                  DependencyConfiguration(4, 1, msync)>>
                           ELSE << >>
              IN /\ dependency_to_configuration =
                        [m \in 1..4 |-> IF m = 1 THEN direct \o merge ELSE << >>]
                 /\ dependent_to_configuration =
                        [m \in 1..4 |->
                            IF m = 2 /\ n >= 1
                            THEN <<DependentConfiguration(1, None, dsync)>>
                            ELSE IF m \in {3, 4} /\ n >= 2
                            THEN <<DependentConfiguration(1, 0, msync)>>
                            ELSE << >>]
    /\ call_log = [m \in 1..4 |-> << >>]
    /\ receives = 0
    /\ events = << >>

\* A dependency hands method 1 its output: a full tuple over a DIRECT
\* edge, one record over a MERGE edge.
MReceive ==
    /\ receives < MaxReceives
    /\ \E i \in 1..Len(dependency_to_configuration[1]) :
         LET configuration == dependency_to_configuration[1][i]
             data == [k \in 1..sources[configuration.key] |-> receives + 1]
             ms == receive_data(MethodState(1), sinks[1], configuration, data)
         IN /\ input_queue' = [input_queue EXCEPT ![1] = ms.input_queue]
            /\ remaining_for_execution' =
                   [remaining_for_execution EXCEPT ![1] = ms.remaining_for_execution]
            /\ events' = Append(events, configuration.key)
    /\ receives' = receives + 1
    /\ UNCHANGED <<methods, sinks, sources, dependency_to_configuration,
                   dependent_to_configuration, call_log>>
    /\ UNCHANGED <<queueVars, graphVars, execVars, moduleVars, raceVars, handoffVars>>

\* execute(): pops one item per slot and invokes the callable.
MExecute ==
    /\ is_ready_for_execution(MethodState(1))
    \* a pop of an empty queue raises (assert in _pop_table): no call is made
    /\ \A i \in sink_indices(sinks[1]) : ~IsEmpty(input_queue[1][i])
    /\ LET ms == pop_data_for_execution(MethodState(1), sinks[1])
       IN /\ input_queue' = [input_queue EXCEPT ![1] = ms.input_queue]
          /\ remaining_for_execution' =
                 [remaining_for_execution EXCEPT ![1] = ms.remaining_for_execution]
    /\ call_log' = [call_log EXCEPT
                       ![1] = LogCall(@, PoppedData(MethodState(1), sinks[1]))]
    /\ events' = IF Len(call_log[1]) < MaxLog THEN Append(events, 1) ELSE events
    /\ UNCHANGED <<methods, sinks, sources, dependency_to_configuration,
                   dependent_to_configuration, receives>>
    /\ UNCHANGED <<queueVars, graphVars, execVars, moduleVars, raceVars, handoffVars>>

MNext == MReceive \/ MExecute

SpecMethod == MInit /\ [][MNext]_vars

\* C3: a method is ready (remaining set empty) exactly when every one of its
\* input queues is non-empty; with no consumer slots it is always ready.
ReadyIffAllQueuesNonEmpty ==
    \A m \in methods :
        is_ready_for_execution(MethodState(m))
            <=> (\A i \in sink_indices(sinks[m]) : ~IsEmpty(input_queue[m][i]))

\* C3 witness: a two-slot method has executed and one slot drained while the
\* other still holds an item.
ReadyIffWitness ==
    /\ methods # {}
    /\ sinks[1] = 2
    /\ Len(call_log[1]) >= 1
    /\ remaining_for_execution[1] = {1}
    /\ ~IsEmpty(input_queue[1][0])

\* The item a queue holds for an async delivery of value v.
AsyncItem(v) == [v |-> v, s |-> FALSE]

\* Method 1 is the consumer C(A, B) of a MERGE of methods 3 (slot A) and 4
\* (slot B) with the default settings: async, capacity 1, non-sticky.
MergeDefault ==
    /\ methods # {}
    /\ sinks[1] = 2
    /\ \A i \in sink_indices(2) :
          input_queue[1][i].size = 1 /\ ~input_queue[1][i].sticky
    /\ ~DictGet(dependency_to_configuration[1], 3).sync

\* C11 as stated: after the deliveries A1, B1 the consumer executes with
\* exactly (A1, B1); after A1, A2, B1 it executes exactly once, with (A1, B1),
\* and A2 stays buffered in slot A.  (The k-th delivery carries the value k.)
MergeCrossedKeepsFirst ==
    MergeDefault =>
        /\ events = <<3, 4, 1>> => call_log[1] = << <<1, 2>> >>
        /\ events = <<3, 3, 4, 1>> =>
              /\ call_log[1] = << <<1, 3>> >>
              /\ input_queue[1][0].arrow_table = <<AsyncItem(2)>>

\* C11 amended: after A1, B1 the consumer is ready and executes exactly once,
\* with (A1, B1); after A1, A2, B1 it is ready and executes exactly once, with
\* (A2, B1): A2 has replaced A1 in the capacity-1 slot A, and both slots are
\* empty afterwards.
MergeCrossedKeepsLatest ==
    MergeDefault =>
        /\ events \in {<<3>>, <<3, 3>>} => ~is_ready_for_execution(MethodState(1))
        /\ events \in {<<3, 4>>, <<3, 3, 4>>} => is_ready_for_execution(MethodState(1))
        /\ events = <<3, 4, 1>> =>
              /\ call_log[1] = << <<1, 2>> >>
              /\ ~is_ready_for_execution(MethodState(1))
        /\ events = <<3, 3, 4, 1>> =>
              /\ call_log[1] = << <<2, 3>> >>
              /\ IsEmpty(input_queue[1][0])
              /\ IsEmpty(input_queue[1][1])
              /\ ~is_ready_for_execution(MethodState(1))

\* C11 witness: the crossed deliveries A1, A2, B1 were made and the consumer
\* has executed.
MergeCrossedWitness ==
    /\ MergeDefault
    /\ events = <<3, 3, 4, 1>>

\* Method 1 is the sink S(X, Y) of an async DIRECT edge from method 2: slot X
\* is sticky with capacity 1, slot Y non-sticky with capacity 1.
StickyBroadcast ==
    /\ methods # {}
    /\ sinks[1] = 2
    /\ input_queue[1][0].size = 1 /\ input_queue[1][0].sticky
    /\ input_queue[1][1].size = 1 /\ ~input_queue[1][1].sticky
    /\ ~DictGet(dependency_to_configuration[1], 2).sync

\* C12: after P has delivered (x1, y1) and then (x2, y2) before S executes, S
\* is ready, its first execution observes (x2, y2), and afterwards S is not
\* ready because Y is empty while X still holds x2.
StickyKeepsLatest ==
    StickyBroadcast =>
        /\ events = <<2, 2>> => is_ready_for_execution(MethodState(1))
        /\ events = <<2, 2, 1>> =>
              /\ call_log[1] = << <<2, 2>> >>
              /\ ~is_ready_for_execution(MethodState(1))
              /\ remaining_for_execution[1] = {1}
              /\ IsEmpty(input_queue[1][1])
              /\ input_queue[1][0].arrow_table = <<AsyncItem(2)>>

\* C12 witness: both deliveries were made and then S has executed once.
StickyKeepsLatestWitness ==
    /\ StickyBroadcast
    /\ events = <<2, 2, 1>>

\* ------------------------------------- SpecGraph: assembly and planning
\* Three methods over one record type: a source, a one-in one-out method and
\* a two-slot consumer, each with one output.  Every slot has the default
\* sink configuration.
GraphSinks == <<0, 1, 2>>
GraphSources == <<1, 1, 1>>

Distinct(seq) == \A i, j \in 1..Len(seq) : seq[i] = seq[j] => i = j

\* The connections Connection.__init__ accepts: the producers' output tuple
\* is the consumers' input tuple.
DirectConnections ==
    {Connection(<<p>>, <<c>>, sync) : <<p, c, sync>> \in
        {x \in methods \X methods \X BOOLEAN :
            sources[x[1]] = sinks[x[2]] /\ sinks[x[2]] >= 1}}

MergeConnections ==
    UNION {{Connection(ps, <<c>>, sync) : <<ps, sync>> \in
               {x \in [1..sinks[c] -> methods] \X BOOLEAN :
                   Distinct(x[1]) /\ \A i \in 1..sinks[c] : sources[x[1][i]] = 1}} :
           c \in {m \in methods : sinks[m] >= 2}}

SplitConnections ==
    UNION {{Connection(<<p>>, cs, sync) : <<cs, sync>> \in
               {x \in [1..sources[p] -> methods] \X BOOLEAN :
                   Distinct(x[1]) /\ \A i \in 1..sources[p] : sinks[x[1][i]] = 1}} :
           p \in {m \in methods : sources[m] >= 2}}

\* The methods before any connection is made: slot i of method m is a queue
\* of capacity size[m][i], sticky or not (the method's sink configuration).
Unconnected(snk, src, size, sticky) ==
    /\ QueueIdle
    /\ ModuleIdle
    /\ RaceIdle
    /\ HandoffIdle
    /\ methods = 1..Len(snk)
    /\ sinks = snk
    /\ sources = src
    /\ input_queue = [m \in 1..Len(snk) |->
          NewMethodState(snk[m], size[m], sticky[m]).input_queue]
    /\ remaining_for_execution = [m \in 1..Len(snk) |-> sink_indices(snk[m])]
    /\ dependency_to_configuration = [m \in 1..Len(snk) |-> << >>]
    /\ dependent_to_configuration = [m \in 1..Len(snk) |-> << >>]
    /\ call_log = [m \in 1..Len(snk) |-> << >>]
    /\ receives = 0
    /\ events = << >>
    /\ GraphIdle
    /\ ExecIdle

GInit ==
    Unconnected(GraphSinks, GraphSources,
                [m \in 1..Len(GraphSinks) |-> [i \in sink_indices(GraphSinks[m]) |-> 1]],
                [m \in 1..Len(GraphSinks) |-> [i \in sink_indices(GraphSinks[m]) |-> FALSE]])

\* Connection.__init__: a new connection registers its pairs on both ends.
Connect ==
    /\ graph_phase = "assembling"
    /\ Cardinality(connections) < MaxConnections
    /\ \E c \in DirectConnections \cup MergeConnections \cup SplitConnections :
         /\ \A e \in connections : ConnectionKey(e) # ConnectionKey(c)
         /\ LET cfg == AddPairs(Configs(dependency_to_configuration,
                                        dependent_to_configuration), c, 1)
            IN /\ dependency_to_configuration' = cfg.dependency
               /\ dependent_to_configuration' = cfg.dependent
         /\ connections' = connections \cup {c}
    /\ UNCHANGED <<methods, sinks, sources, input_queue, remaining_for_execution,
                   call_log, receives, events>>
    /\ UNCHANGED <<graph_phase, processes, process_mapping, layers, layer_mapping,
                   process_layer_mapping, in_process_layer_mapping, process_readiness>>
    /\ UNCHANGED <<queueVars, execVars, moduleVars, raceVars, handoffVars>>

\* The connections and the configuration dicts of the methods.
Assembly ==
    [connections |-> connections,
     dependency |-> dependency_to_configuration,
     dependent |-> dependent_to_configuration]

\* Connection.block() on connection c of the assembly a.
block(a, c) ==
    LET cfg == BlockPairs(Configs(a.dependency, a.dependent), c, 1)
    IN [connections |-> (a.connections \ {c}) \cup {[c EXCEPT !.active = FALSE]},
        dependency |-> cfg.dependency,
        dependent |-> cfg.dependent]

\* Connection.block(), on a connection that is active or already blocked.
Block ==
    /\ graph_phase = "assembling"
    /\ \E c \in connections :
         /\ c.active => Cardinality({e \in connections : ~e.active}) < MaxBlocked
         /\ connections' = block(Assembly, c).connections
         /\ dependency_to_configuration' = block(Assembly, c).dependency
         /\ dependent_to_configuration' = block(Assembly, c).dependent
    /\ UNCHANGED <<methods, sinks, sources, input_queue, remaining_for_execution,
                   call_log, receives, events>>
    /\ UNCHANGED <<graph_phase, processes, process_mapping, layers, layer_mapping,
                   process_layer_mapping, in_process_layer_mapping, process_readiness>>
    /\ UNCHANGED <<queueVars, execVars, moduleVars, raceVars, handoffVars>>

\* ExecutionGraph.__init__: _build_processes, then _build_layers, then the
\* readiness map.  A cycle raises out of _build_layers.
Construct ==
    /\ graph_phase = "assembling"
    /\ \E order \in IterationOrders(methods) :
         LET p == build_processes(dependency_to_configuration, order)
             l == build_layers(methods, dependency_to_configuration,
                               dependent_to_configuration, p.groups, p.group_mapping)
         IN /\ processes' = p.groups
            /\ process_mapping' = p.group_mapping
            /\ IF l.error
               THEN /\ graph_phase' = "cycle"
                    /\ UNCHANGED <<layers, layer_mapping, process_layer_mapping,
                                   in_process_layer_mapping, process_readiness>>
               ELSE /\ graph_phase' = "built"
                    /\ layers' = l.layers
                    /\ layer_mapping' = l.layer_mapping
                    /\ process_layer_mapping' = l.process_layer_mapping
                    /\ in_process_layer_mapping' = l.in_process_layer_mapping
                    /\ process_readiness' =
                          ProcessReadiness(p.groups, l.process_layer_mapping,
                                           remaining_for_execution)
    /\ UNCHANGED <<methodVars, connections>>
    /\ UNCHANGED <<queueVars, execVars, moduleVars, raceVars, handoffVars>>

GNext == Connect \/ Block \/ Construct

SpecGraph == GInit /\ [][GNext]_vars

\* Assembly over configured slots: a source and two one-slot methods, the
\* slot of each with a capacity and a stickiness of its own.
SlotSinks == <<0, 1, 1>>
SlotSources == <<1, 1, 1>>

SlotInit ==
    \E size \in [{2, 3} -> 1..MaxQueueSize], sticky \in [{2, 3} -> BOOLEAN] :
        Unconnected(SlotSinks, SlotSources,
                    [m \in 1..3 |-> [i \in sink_indices(SlotSinks[m]) |-> size[m]]],
                    [m \in 1..3 |-> [i \in sink_indices(SlotSinks[m]) |-> sticky[m]]])

SpecAssembly == SlotInit /\ [][GNext]_vars

\* The graph of the active entries, read off the dependency dicts.
ActiveEdge(p, c) ==
    \E i \in 1..Len(dependency_to_configuration[c]) :
        /\ dependency_to_configuration[c][i].key = p
        /\ dependency_to_configuration[c][i].active

ActiveSyncEdge(p, c) ==
    \E i \in 1..Len(dependency_to_configuration[c]) :
        /\ dependency_to_configuration[c][i].key = p
        /\ dependency_to_configuration[c][i].active
        /\ dependency_to_configuration[c][i].sync

RECURSIVE SyncComponent(_)
SyncComponent(S) ==
    LET T == S \cup {n \in methods : \E x \in S : ActiveSyncEdge(x, n) \/ ActiveSyncEdge(n, x)}
    IN IF T = S THEN S ELSE SyncComponent(T)

RECURSIVE Descendants(_)
Descendants(S) ==
    LET T == S \cup {n \in methods : \E x \in S : ActiveEdge(x, n)}
    IN IF T = S THEN S ELSE Descendants(T)

HasActiveCycle ==
    \E m \in methods : m \in Descendants({n \in methods : ActiveEdge(m, n)})

\* C4: the processes are exactly the connected components of the methods
\* under the active sync dependency edges.
ProcessesAreSyncComponents ==
    graph_phase # "assembling" =>
        LET component == [m \in methods |-> SyncComponent({m})]
        IN /\ \A a, b \in methods :
                 (process_mapping[a] = process_mapping[b]) <=> (b \in component[a])
           /\ {processes[g] : g \in DOMAIN processes} = {component[m] : m \in methods}
           /\ \A m \in methods : m \in processes[process_mapping[m]]

\* C4 witness: a sync edge joined two methods while an active async edge left
\* its endpoints in two processes.
ProcessesWitness ==
    /\ graph_phase = "built"
    /\ \E a, b \in methods : a # b /\ ActiveSyncEdge(a, b)
    /\ \E a, b \in methods :
          /\ ActiveEdge(a, b) /\ ~ActiveSyncEdge(a, b)
          /\ process_mapping[a] # process_mapping[b]

\* C5: along every active dependency edge the layer index grows strictly, and
\* along an active sync edge so does the layer index within the process.
LayersMonotone ==
    graph_phase = "built" =>
        \A p, c \in methods :
            /\ ActiveEdge(p, c) => layer_mapping[p] < layer_mapping[c]
            /\ ActiveSyncEdge(p, c) =>
                  /\ process_mapping[p] = process_mapping[c]
                  /\ in_process_layer_mapping[p] < in_process_layer_mapping[c]

\* C5 witness: a built graph with a chain of two active sync edges.
LayersWitness ==
    /\ graph_phase = "built"
    /\ \E a, b, c \in methods : ActiveSyncEdge(a, b) /\ ActiveSyncEdge(b, c)

\* The pairs all of whose connections have been blocked.
BlockedPairs ==
    UNION {PairSet(c) : c \in {e \in connections : ~e.active}}
        \ UNION {PairSet(c) : c \in {e \in connections : e.active}}

\* A dict without the entries of the given pairs; owner is the method that
\* holds the dict, as consumer (dependency dict) or as producer.
WithoutPairs(dict, owner, as_consumer, pairs) ==
    SelectSeq(dict, LAMBDA e :
        IF as_consumer THEN <<e.key, owner>> \notin pairs
        ELSE <<owner, e.key>> \notin pairs)

CycleRejected ==
    graph_phase # "assembling" =>
        /\ (graph_phase = "cycle") <=> HasActiveCycle
        /\ graph_phase = "built" =>
              \A m \in methods :
                  /\ Cardinality({i \in 1..Len(layers) : m \in layers[i]}) = 1
                  /\ m \in layers[layer_mapping[m] + 1]

\* C7 witness: two methods depend on each other through sync edges and the
\* construction reported the cycle.
CycleWitness ==
    /\ graph_phase = "cycle"
    /\ \E a, b \in methods :
          a # b /\ ActiveSyncEdge(a, b) /\ ActiveSyncEdge(b, a)

\* ------------------------------------------------ SpecExec: the executor
\* The graphs that are executed: "chain" is A -> B -> C over sync DIRECT
\* connections, "async" is A -> B over an async DIRECT connection, "idle" is
\* one method whose input has no producer.  Slots have the default sink
\* configuration.
Scenarios == {"chain", "async", "idle"}

\* A SPLIT of the two outputs of P to C_A and C_B, async or sync.
SplitScenarios == {"split", "split-sync"}

\* Graphs with more than one method in a layer of a process.  "pair": a source
\* X and a method Y that nothing feeds, merged by a sync MERGE into Z; X and Y
\* are the first layer of the one process.  "relay": a method W that nothing
\* feeds is connected to Y by an async edge, and a source X and Y are merged
\* by a sync MERGE into Z; the process of X, Y and Z has the layers {X}, {Y},
\* {Z}, and the process of W is never ready.
LayerScenarios == {"pair", "relay"}

\* "feed": a source P feeds M over an async DIRECT connection and M feeds Z
\* over a sync DIRECT connection; P is one process, M and Z are another, with
\* the layers {M}, {Z}.
FeedScenarios == {"feed"}

\* "sticky": the graph of "async", A -> B over an async DIRECT connection,
\* where the slot of B is declared sticky.
StickyScenarios == {"sticky"}

\* The sticky flag of the slots of a scenario's methods.
ScenarioSticky(sc) == sc \in StickyScenarios

ScenarioSinks(sc) ==
    IF sc \in {"chain"} \cup SplitScenarios \cup FeedScenarios THEN <<0, 1, 1>>
    ELSE IF sc = "pair" THEN <<0, 1, 2>>
    ELSE IF sc = "relay" THEN <<1, 0, 1, 2>>
    ELSE IF sc \in {"async"} \cup StickyScenarios THEN <<0, 1>> ELSE <<1>>

ScenarioSources(sc) ==
    IF sc \in {"chain"} \cup FeedScenarios THEN <<1, 1, 0>>
    ELSE IF sc \in SplitScenarios THEN <<2, 0, 0>>
    ELSE IF sc = "pair" THEN <<1, 1, 0>>
    ELSE IF sc = "relay" THEN <<1, 1, 1, 0>>
    ELSE IF sc \in {"async"} \cup StickyScenarios THEN <<1, 0>> ELSE <<0>>

ScenarioConnections(sc) ==
    IF sc = "chain"
    THEN <<Connection(<<1>>, <<2>>, TRUE), Connection(<<2>>, <<3>>, TRUE)>>
    ELSE IF sc \in {"async"} \cup StickyScenarios
    THEN <<Connection(<<1>>, <<2>>, FALSE)>>
    ELSE IF sc \in FeedScenarios
    THEN <<Connection(<<1>>, <<2>>, FALSE), Connection(<<2>>, <<3>>, TRUE)>>
    ELSE IF sc \in SplitScenarios
    THEN <<Connection(<<1>>, <<2, 3>>, sc = "split-sync")>>
    ELSE IF sc = "pair" THEN <<Connection(<<1, 2>>, <<3>>, TRUE)>>
    ELSE IF sc = "relay"
    THEN <<Connection(<<1>>, <<3>>, FALSE), Connection(<<2, 3>>, <<4>>, TRUE)>>
    ELSE << >>

RECURSIVE AddConnections(_, _, _)
AddConnections(cfg, conns, k) ==
    IF k > Len(conns) THEN cfg
    ELSE AddConnections(AddPairs(cfg, conns[k], 1), conns, k + 1)

\* The user callables.  A source returns its running count in every output,
\* output k shifted by k strides so that the outputs of one call differ; any
\* other method returns its first argument in every output.  Counts beyond
\* MaxSeq are all represented by one value.
Beyond == MaxSeq + 1

Stride == MaxSeq + 2

\* The output (0-based) of a source that a value comes from.
OutputIndex(v) == v \div Stride

Counted(args) == \A k \in 1..Len(args) : (args[k] % Stride) # Beyond

\* The ghost log of the executor follows the records along sync edges: it
\* keeps the calls, on counted values, of the methods all of whose active
\* dependencies are sync.
Logged(m) ==
    \A i \in 1..Len(dependency_to_configuration[m]) :
        dependency_to_configuration[m][i].active => dependency_to_configuration[m][i].sync

LogCounted(m, log, args) ==
    IF Logged(m) /\ Counted(args) THEN LogCall(log, args) ELSE log

SourceValue(count) == IF count < MaxSeq THEN count + 1 ELSE Beyond

CallableOutput(m, args, count) ==
    [k \in 1..sources[m] |->
        IF sinks[m] = 0 THEN (k - 1) * Stride + SourceValue(count) ELSE args[1]]

\* The local variables of _execute_process_group, and two ghost fields: the
\* sources that have returned from a call in the current pass over the
\* current layer, and whether one of them has done so twice in one pass.
NewWorker ==
    [pc |-> "start", layer_index |-> 0, remaining_methods |-> << >>,
     remaining_method_index |-> 0, method |-> 0, method_output |-> << >>,
     dependent_index |-> 1, observed_stop |-> FALSE, ran |-> {}, reran |-> FALSE]

ProcessIndices == DOMAIN processes

\* Dicts are iterated in insertion order: ascending process index.
FirstProcessFrom(k) ==
    IF \E p \in ProcessIndices : p >= k
    THEN CHOOSE p \in ProcessIndices : p >= k /\ \A q \in ProcessIndices : q >= k => p <= q
    ELSE None

\* The state once the graph of a scenario is built and execute is called.
ScenarioInit(sc) ==
    /\ QueueIdle
    /\ ModuleIdle
    /\ RaceIdle
    /\ HandoffIdle
    /\ /\ scenario = sc
         /\ methods = 1..Len(ScenarioSinks(sc))
         /\ sinks = ScenarioSinks(sc)
         /\ sources = ScenarioSources(sc)
         /\ connections = {ScenarioConnections(sc)[k] : k \in 1..Len(ScenarioConnections(sc))}
         /\ LET ms == 1..Len(ScenarioSinks(sc))
                cfg == AddConnections(Configs([m \in ms |-> << >>], [m \in ms |-> << >>]),
                                      ScenarioConnections(sc), 1)
                state == [m \in ms |->
                            NewMethodState(ScenarioSinks(sc)[m],
                                [i \in sink_indices(ScenarioSinks(sc)[m]) |-> 1],
                                [i \in sink_indices(ScenarioSinks(sc)[m]) |->
                                    ScenarioSticky(sc)])]
            IN /\ dependency_to_configuration = cfg.dependency
               /\ dependent_to_configuration = cfg.dependent
               /\ input_queue = [m \in ms |-> state[m].input_queue]
               /\ remaining_for_execution = [m \in ms |-> state[m].remaining_for_execution]
               /\ call_log = [m \in ms |-> << >>]
               /\ emitted = [m \in ms |-> 0]
               /\ \E order \in IterationOrders(ms) :
                    LET p == build_processes(cfg.dependency, order)
                        l == build_layers(ms, cfg.dependency, cfg.dependent,
                                          p.groups, p.group_mapping)
                    IN /\ ~l.error
                       /\ graph_phase = "built"
                       /\ processes = p.groups
                       /\ process_mapping = p.group_mapping
                       /\ layers = l.layers
                       /\ layer_mapping = l.layer_mapping
                       /\ process_layer_mapping = l.process_layer_mapping
                       /\ in_process_layer_mapping = l.in_process_layer_mapping
                       /\ process_readiness =
                             ProcessReadiness(p.groups, l.process_layer_mapping,
                                              [m \in ms |-> state[m].remaining_for_execution])
                       /\ process_exited_manually = [i \in DOMAIN p.groups |-> FALSE]
                       /\ threads = [i \in DOMAIN p.groups |-> "none"]
                       /\ worker = [i \in DOMAIN p.groups |-> NewWorker]
    /\ receives = 0
    /\ events = << >>
    /\ stop_event = FALSE
    /\ main_pc = "create"
    /\ main_next = 0
    /\ monitor_pc = "unstarted"
    /\ ready_processes = << >>
    /\ failed = {}

EInit ==
    /\ \E sc \in Scenarios : ScenarioInit(sc)
    /\ callables_return \in BOOLEAN

\* Mutant of MainCreate: every thread is started, ready or not.
MainCreateStartAll ==
    /\ main_pc = "create"
    /\ LET p == FirstProcessFrom(main_next)
       IN IF p = None
          THEN /\ main_pc' = "monitor"
               /\ UNCHANGED <<threads, main_next>>
          ELSE /\ threads' = [threads EXCEPT ![p] =
                                 "alive"]
               /\ main_next' = p + 1
               /\ UNCHANGED main_pc
    /\ UNCHANGED <<worker, process_exited_manually, stop_event, monitor_pc,
                   ready_processes, failed, emitted, scenario, callables_return>>
    /\ UNCHANGED <<methodVars, graphVars, queueVars, moduleVars, raceVars, handoffVars>>

\* ExecutionGraph.execute: the loop that creates one thread per process and
\* starts those whose process is ready.
MainCreate ==
    /\ main_pc = "create"
    /\ LET p == FirstProcessFrom(main_next)
       IN IF p = None
          THEN /\ main_pc' = "monitor"
               /\ UNCHANGED <<threads, main_next>>
          ELSE /\ threads' = [threads EXCEPT ![p] =
                                 IF process_readiness[p] \/ ~reactive_threads
                                 THEN "alive" ELSE "new"]
               /\ main_next' = p + 1
               /\ UNCHANGED main_pc
    /\ UNCHANGED <<worker, process_exited_manually, stop_event, monitor_pc,
                   ready_processes, failed, emitted, scenario, callables_return>>
    /\ UNCHANGED <<methodVars, graphVars, queueVars, moduleVars, raceVars, handoffVars>>

\* execute: the monitor thread is started and joined.
MainStartMonitor ==
    /\ main_pc = "monitor"
    /\ monitor_pc' = "check"
    /\ main_pc' = "join"
    /\ UNCHANGED <<worker, main_next, threads, process_exited_manually, stop_event,
                   ready_processes, failed, emitted, scenario, callables_return>>
    /\ UNCHANGED <<methodVars, graphVars, queueVars, moduleVars, raceVars, handoffVars>>

\* execute: monitor_thread.join() returns and execute returns.
MainReturn ==
    /\ main_pc = "join"
    /\ monitor_pc = "done"
    /\ main_pc' = "returned"
    /\ UNCHANGED <<worker, main_next, threads, process_exited_manually, stop_event, monitor_pc,
                   ready_processes, failed, emitted, scenario, callables_return>>
    /\ UNCHANGED <<methodVars, graphVars, queueVars, moduleVars, raceVars, handoffVars>>

\* execute: Ctrl+C while the main thread is inside the try block.  The handler
\* sets the stop event, joins the live threads with a timeout and returns.
KeyboardInterrupt ==
    /\ main_pc \notin {"returned", "interrupted"}
    /\ stop_event' = TRUE
    /\ main_pc' = "interrupted"
    /\ UNCHANGED <<worker, main_next, threads, process_exited_manually, monitor_pc,
                   ready_processes, failed, emitted, scenario, callables_return>>
    /\ UNCHANGED <<methodVars, graphVars, queueVars, moduleVars, raceVars, handoffVars>>

\* ----------------------------------------------- _execute_process_group
Finished(w) == [NewWorker EXCEPT !.pc = "done"]

\* remaining_method_index is only ever compared with the length of a list of
\* methods, so counting stops at the number of methods.
Bump(index) == IF index < Cardinality(methods) THEN index + 1 ELSE index

\* process_exited_manually[process_index] = True
WorkerStart(p) ==
    /\ p \in ProcessIndices
    /\ threads[p] = "alive"
    /\ worker[p].pc = "start"
    /\ process_exited_manually' = [process_exited_manually EXCEPT ![p] = TRUE]
    /\ worker' = [worker EXCEPT ![p].pc = "outer"]
    /\ UNCHANGED <<threads, stop_event, main_pc, main_next, monitor_pc, ready_processes,
                   failed, emitted, scenario, callables_return>>
    /\ UNCHANGED <<methodVars, graphVars, queueVars, moduleVars, raceVars, handoffVars>>

\* "for layer_index, layer in enumerate(process_layers)" reaches index k:
\* past the last layer the worker is back at the outer while; otherwise
\* remaining_methods = list(layer), in some iteration order of the set.
LayerOrders(p, k) ==
    IF k >= Len(process_layer_mapping[p]) THEN {<< >>}
    ELSE IterationOrders(process_layer_mapping[p][k + 1])

EnterLayer(w, p, k, order) ==
    IF k >= Len(process_layer_mapping[p])
    THEN [w EXCEPT !.pc = "outer", !.layer_index = 0, !.remaining_methods = << >>,
                   !.remaining_method_index = 0, !.ran = {}]
    ELSE [w EXCEPT !.pc = "inner", !.layer_index = k, !.remaining_methods = order,
                   !.remaining_method_index = 0, !.ran = {}]

\* Mutant of WorkerOuter: "while True", the stop event is not consulted.
WorkerOuterNoStop(p) ==
    /\ p \in ProcessIndices
    /\ threads[p] = "alive"
    /\ worker[p].pc = "outer"
    /\ IF process_layer_mapping[p] = << >>
       THEN /\ worker' = [worker EXCEPT ![p] = Finished(@)]
            /\ threads' = [threads EXCEPT ![p] = "finished"]
       ELSE /\ \E order \in LayerOrders(p, 0) :
                 worker' = [worker EXCEPT ![p] = EnterLayer(@, p, 0, order)]
            /\ UNCHANGED threads
    /\ UNCHANGED <<process_exited_manually, stop_event, main_pc, main_next, monitor_pc,
                   ready_processes, failed, emitted, scenario, callables_return>>
    /\ UNCHANGED <<methodVars, graphVars, queueVars, moduleVars, raceVars, handoffVars>>

\* "while not self.stop_event.is_set()", "if not process_layers: break" and
\* the start of the for loop.
WorkerOuter(p) ==
    /\ p \in ProcessIndices
    /\ threads[p] = "alive"
    /\ worker[p].pc = "outer"
    /\ IF stop_event
       THEN /\ worker' = [worker EXCEPT ![p] = Finished(@)]
            /\ threads' = [threads EXCEPT ![p] = "finished"]
       ELSE IF process_layer_mapping[p] = << >>
       THEN /\ worker' = [worker EXCEPT ![p] = Finished(@)]
            /\ threads' = [threads EXCEPT ![p] = "finished"]
       ELSE /\ \E order \in LayerOrders(p, 0) :
                 worker' = [worker EXCEPT ![p] = EnterLayer(@, p, 0, order)]
            /\ UNCHANGED threads
    /\ UNCHANGED <<process_exited_manually, stop_event, main_pc, main_next, monitor_pc,
                   ready_processes, failed, emitted, scenario, callables_return>>
    /\ UNCHANGED <<methodVars, graphVars, queueVars, moduleVars, raceVars, handoffVars>>

\* "while remaining_methods and not self.stop_event.is_set()" and the pop(0);
\* when the while ends, the for loop moves to the next layer.
WorkerInner(p) ==
    /\ p \in ProcessIndices
    /\ threads[p] = "alive"
    /\ worker[p].pc = "inner"
    /\ LET w == worker[p]
       IN IF w.remaining_methods = << >>
          THEN \E order \in LayerOrders(p, w.layer_index + 1) :
                 worker' = [worker EXCEPT ![p] = EnterLayer(@, p, w.layer_index + 1, order)]
          ELSE IF stop_event
          THEN \E order \in LayerOrders(p, w.layer_index + 1) :
                 worker' = [worker EXCEPT
                     ![p] = [EnterLayer(@, p, w.layer_index + 1, order)
                                EXCEPT !.observed_stop = TRUE]]
          ELSE worker' = [worker EXCEPT ![p].pc = "ready",
                                        ![p].method = Head(w.remaining_methods),
                                        ![p].remaining_methods = Tail(@)]
    /\ UNCHANGED <<threads, process_exited_manually, stop_event, main_pc, main_next,
                   monitor_pc, ready_processes, failed, emitted, scenario,
                   callables_return>>
    /\ UNCHANGED <<methodVars, graphVars, queueVars, moduleVars, raceVars, handoffVars>>

\* "if not method.is_ready_for_execution": put the method back, or park.
WorkerCheckReady(p) ==
    /\ p \in ProcessIndices
    /\ threads[p] = "alive"
    /\ worker[p].pc = "ready"
    /\ LET w == worker[p]
           back == Append(w.remaining_methods, w.method)
           index == Bump(w.remaining_method_index)
       IN IF is_ready_for_execution(MethodState(w.method))
          THEN /\ worker' = [worker EXCEPT ![p].pc = "execute"]
               /\ UNCHANGED <<threads, process_exited_manually>>
          ELSE IF index >= Len(back) /\ w.layer_index = 0 /\ reactive_threads
          THEN /\ process_exited_manually' = [process_exited_manually EXCEPT ![p] = FALSE]
               /\ worker' = [worker EXCEPT ![p] = Finished(@)]
               /\ threads' = [threads EXCEPT ![p] = "finished"]
          ELSE /\ worker' = [worker EXCEPT ![p].pc = "inner",
                                           ![p].remaining_methods = back,
                                           ![p].remaining_method_index = index,
                                           ![p].method = 0]
               /\ UNCHANGED <<threads, process_exited_manually>>
    /\ UNCHANGED <<stop_event, main_pc, main_next, monitor_pc, ready_processes, failed,
                   emitted, scenario, callables_return>>
    /\ UNCHANGED <<methodVars, graphVars, queueVars, moduleVars, raceVars, handoffVars>>

\* What the user callable of a call does: it returns its outputs, raises, or
\* returns a value of the wrong arity (the assert of __call__).
Outcomes == IF callables_return THEN {"ok"} ELSE {"ok", "raise", "arity"}

\* Mutant of WorkerExecute: the arity assert of __call__ is dropped.
WorkerExecuteNoArityCheck(p) ==
    /\ p \in ProcessIndices
    /\ threads[p] = "alive"
    /\ worker[p].pc = "execute"
    /\ LET m == worker[p].method
           ms == pop_data_for_execution(MethodState(m), sinks[m])
           args == PoppedData(MethodState(m), sinks[m])
           popped_all == \A i \in sink_indices(sinks[m]) : ~IsEmpty(input_queue[m][i])
           gen == active_dependent_generator(dependent_to_configuration[m])
       IN /\ input_queue' = [input_queue EXCEPT ![m] = ms.input_queue]
          /\ remaining_for_execution' =
                [remaining_for_execution EXCEPT ![m] = ms.remaining_for_execution]
          /\ \E outcome \in Outcomes :
               IF popped_all /\ outcome \in {"ok", "arity"}
               THEN /\ worker' = [worker EXCEPT
                          ![p].pc = IF gen = << >> THEN "requeue" ELSE "deliver",
                          ![p].method_output =
                              IF outcome = "arity"
                              THEN Append(CallableOutput(m, args, emitted[m]), Beyond)
                              ELSE CallableOutput(m, args, emitted[m]),
                          ![p].dependent_index = 1,
                          ![p].ran = IF sinks[m] = 0 THEN @ \cup {m} ELSE @,
                          ![p].reran = @ \/ (sinks[m] = 0 /\ m \in worker[p].ran)]
                    /\ call_log' = [call_log EXCEPT ![m] = LogCounted(m, @, args)]
                    /\ emitted' = [emitted EXCEPT
                          ![m] = IF sinks[m] = 0 /\ @ < MaxSeq THEN @ + 1 ELSE @]
                    /\ UNCHANGED <<threads, failed>>
               ELSE /\ worker' = [worker EXCEPT ![p] = Finished(@)]
                    /\ threads' = [threads EXCEPT ![p] = "finished"]
                    /\ failed' = failed \cup {p}
                    /\ call_log' = [call_log EXCEPT
                          ![m] = IF popped_all THEN LogCounted(m, @, args) ELSE @]
                    /\ UNCHANGED emitted
    /\ UNCHANGED <<methods, sinks, sources, dependency_to_configuration,
                   dependent_to_configuration, receives, events>>
    /\ UNCHANGED <<process_exited_manually, stop_event, main_pc, main_next, monitor_pc,
                   ready_processes, scenario, callables_return>>
    /\ UNCHANGED <<graphVars, queueVars, moduleVars, raceVars, handoffVars>>

\* method.execute(): pop_data_for_execution, then the callable.  An exception
\* ends the worker thread.  With no active dependent the for loop over the
\* dependents is empty.
WorkerExecute(p) ==
    /\ p \in ProcessIndices
    /\ threads[p] = "alive"
    /\ worker[p].pc = "execute"
    /\ LET m == worker[p].method
           ms == pop_data_for_execution(MethodState(m), sinks[m])
           args == PoppedData(MethodState(m), sinks[m])
           popped_all == \A i \in sink_indices(sinks[m]) : ~IsEmpty(input_queue[m][i])
           gen == active_dependent_generator(dependent_to_configuration[m])
       IN /\ input_queue' = [input_queue EXCEPT ![m] = ms.input_queue]
          /\ remaining_for_execution' =
                [remaining_for_execution EXCEPT ![m] = ms.remaining_for_execution]
          /\ \E outcome \in Outcomes :
               IF popped_all /\ outcome = "ok"
               THEN /\ worker' = [worker EXCEPT
                          ![p].pc = IF gen = << >> THEN "requeue" ELSE "deliver",
                          ![p].method_output = CallableOutput(m, args, emitted[m]),
                          ![p].dependent_index = 1,
                          ![p].ran = IF sinks[m] = 0 THEN @ \cup {m} ELSE @,
                          ![p].reran = @ \/ (sinks[m] = 0 /\ m \in worker[p].ran)]
                    /\ call_log' = [call_log EXCEPT ![m] = LogCounted(m, @, args)]
                    /\ emitted' = [emitted EXCEPT
                          ![m] = IF sinks[m] = 0 /\ @ < MaxSeq THEN @ + 1 ELSE @]
                    /\ UNCHANGED <<threads, failed>>
               ELSE /\ worker' = [worker EXCEPT ![p] = Finished(@)]
                    /\ threads' = [threads EXCEPT ![p] = "finished"]
                    /\ failed' = failed \cup {p}
                    /\ call_log' = [call_log EXCEPT
                          ![m] = IF popped_all THEN LogCounted(m, @, args) ELSE @]
                    /\ UNCHANGED emitted
    /\ UNCHANGED <<methods, sinks, sources, dependency_to_configuration,
                   dependent_to_configuration, receives, events>>
    /\ UNCHANGED <<process_exited_manually, stop_event, main_pc, main_next, monitor_pc,
                   ready_processes, scenario, callables_return>>
    /\ UNCHANGED <<graphVars, queueVars, moduleVars, raceVars, handoffVars>>

\* Mutant of WorkerDeliver: a split dependent is handed the first output.
WorkerDeliverFirstOutput(p) ==
    /\ p \in ProcessIndices
    /\ threads[p] = "alive"
    /\ worker[p].pc = "deliver"
    /\ LET w == worker[p]
           gen == active_dependent_generator(dependent_to_configuration[w.method])
           dependent == gen[w.dependent_index]
           d == dependent.key
           data == IF dependent.split_source_index = None
                   THEN w.method_output
                   ELSE <<w.method_output[1]>>
           ms == receive_data(MethodState(d), sinks[d],
                     DictGet(dependency_to_configuration[d], w.method), data)
       IN IF sources[w.method] = 0
          THEN \* method_output is None: the assert fails
               /\ worker' = [worker EXCEPT ![p] = Finished(@)]
               /\ threads' = [threads EXCEPT ![p] = "finished"]
               /\ failed' = failed \cup {p}
               /\ UNCHANGED <<input_queue, remaining_for_execution>>
          ELSE /\ input_queue' = [input_queue EXCEPT ![d] = ms.input_queue]
               /\ remaining_for_execution' =
                     [remaining_for_execution EXCEPT ![d] = ms.remaining_for_execution]
               /\ worker' = [worker EXCEPT ![p].pc = "notify"]
               /\ UNCHANGED <<threads, failed>>
    /\ UNCHANGED <<methods, sinks, sources, dependency_to_configuration,
                   dependent_to_configuration, call_log, receives, events>>
    /\ UNCHANGED <<process_exited_manually, stop_event, main_pc, main_next, monitor_pc,
                   ready_processes, emitted, scenario, callables_return>>
    /\ UNCHANGED <<queueVars, moduleVars, raceVars, handoffVars>>
    /\ UNCHANGED graphVars

\* One turn of "for dependent_method in method.active_dependent_generator()":
\* the assert and dependent_method.receive_data(...).
WorkerDeliver(p) ==
    /\ p \in ProcessIndices
    /\ threads[p] = "alive"
    /\ worker[p].pc = "deliver"
    /\ LET w == worker[p]
           gen == active_dependent_generator(dependent_to_configuration[w.method])
           dependent == gen[w.dependent_index]
           d == dependent.key
           data == IF dependent.split_source_index = None
                   THEN w.method_output
                   ELSE <<w.method_output[dependent.split_source_index + 1]>>
           ms == receive_data(MethodState(d), sinks[d],
                     DictGet(dependency_to_configuration[d], w.method), data)
       IN IF sources[w.method] = 0
          THEN \* method_output is None: the assert fails
               /\ worker' = [worker EXCEPT ![p] = Finished(@)]
               /\ threads' = [threads EXCEPT ![p] = "finished"]
               /\ failed' = failed \cup {p}
               /\ UNCHANGED <<input_queue, remaining_for_execution>>
          ELSE /\ input_queue' = [input_queue EXCEPT ![d] = ms.input_queue]
               /\ remaining_for_execution' =
                     [remaining_for_execution EXCEPT ![d] = ms.remaining_for_execution]
               /\ worker' = [worker EXCEPT ![p].pc = "notify"]
               /\ UNCHANGED <<threads, failed>>
    /\ UNCHANGED <<methods, sinks, sources, dependency_to_configuration,
                   dependent_to_configuration, call_log, receives, events>>
    /\ UNCHANGED <<process_exited_manually, stop_event, main_pc, main_next, monitor_pc,
                   ready_processes, emitted, scenario, callables_return>>
    /\ UNCHANGED <<queueVars, moduleVars, raceVars, handoffVars>>
    /\ UNCHANGED graphVars

\* "if the dependent method is in the first layer and its process is not
\* ready, mark it as ready"; then the next dependent, if any.
WorkerNotify(p) ==
    /\ p \in ProcessIndices
    /\ threads[p] = "alive"
    /\ worker[p].pc = "notify"
    /\ LET w == worker[p]
           gen == active_dependent_generator(dependent_to_configuration[w.method])
           d == gen[w.dependent_index].key
       IN /\ process_readiness' =
                IF in_process_layer_mapping[d] = 0 /\ ~process_readiness[process_mapping[d]]
                THEN [process_readiness EXCEPT ![process_mapping[d]] = TRUE]
                ELSE process_readiness
          /\ worker' = [worker EXCEPT
                ![p].pc = IF w.dependent_index >= Len(gen) THEN "requeue" ELSE "deliver",
                ![p].dependent_index = @ + 1]
    /\ UNCHANGED <<connections, graph_phase, processes, process_mapping, layers,
                   layer_mapping, process_layer_mapping, in_process_layer_mapping>>
    /\ UNCHANGED <<threads, process_exited_manually, stop_event, main_pc, main_next,
                   monitor_pc, ready_processes, failed, emitted, scenario,
                   callables_return>>
    /\ UNCHANGED <<methodVars, queueVars, moduleVars, raceVars, handoffVars>>

\* Mutant of WorkerRequeue: the test "and method.consumers" is dropped.
WorkerRequeueAlways(p) ==
    /\ p \in ProcessIndices
    /\ threads[p] = "alive"
    /\ worker[p].pc = "requeue"
    /\ worker' = [worker EXCEPT
          ![p].pc = "inner",
          ![p].method = 0,
          ![p].method_output = << >>,
          ![p].dependent_index = 1,
          ![p].remaining_methods =
              IF is_ready_for_execution(MethodState(worker[p].method))
              THEN Append(@, worker[p].method) ELSE @]
    /\ UNCHANGED <<threads, process_exited_manually, stop_event, main_pc, main_next,
                   monitor_pc, ready_processes, failed, emitted, scenario, callables_return>>
    /\ UNCHANGED <<methodVars, graphVars, queueVars, moduleVars, raceVars, handoffVars>>

\* "if method.is_ready_for_execution and method.consumers: append".
WorkerRequeue(p) ==
    /\ p \in ProcessIndices
    /\ threads[p] = "alive"
    /\ worker[p].pc = "requeue"
    /\ worker' = [worker EXCEPT
          ![p].pc = "inner",
          ![p].method = 0,
          ![p].method_output = << >>,
          ![p].dependent_index = 1,
          ![p].remaining_methods =
              IF /\ is_ready_for_execution(MethodState(worker[p].method))
                 /\ sinks[worker[p].method] > 0
              THEN Append(@, worker[p].method) ELSE @]
    /\ UNCHANGED <<threads, process_exited_manually, stop_event, main_pc, main_next,
                   monitor_pc, ready_processes, failed, emitted, scenario, callables_return>>
    /\ UNCHANGED <<methodVars, graphVars, queueVars, moduleVars, raceVars, handoffVars>>

WorkerStep(p) ==
    \/ WorkerStart(p) \/ WorkerOuter(p) \/ WorkerInner(p)
    \/ WorkerCheckReady(p) \/ WorkerExecute(p) \/ WorkerDeliver(p)
    \/ WorkerNotify(p) \/ WorkerRequeue(p)

\* ---------------------------------------------------- _monitor_processes
RECURSIVE ReadyList(_)
ReadyList(k) ==
    IF FirstProcessFrom(k) = None THEN << >>
    ELSE (IF process_readiness[FirstProcessFrom(k)]
          THEN <<FirstProcessFrom(k)>> ELSE << >>) \o ReadyList(FirstProcessFrom(k) + 1)

\* "while not self.stop_event.is_set()", the list of ready processes, the break.
MonitorCheck ==
    /\ monitor_pc = "check"
    /\ IF stop_event \/ ReadyList(0) = << >>
       THEN /\ monitor_pc' = "done"
            /\ UNCHANGED ready_processes
       ELSE /\ monitor_pc' = "visit"
            /\ ready_processes' = ReadyList(0)
    /\ UNCHANGED <<worker, threads, process_exited_manually, stop_event, main_pc,
                   main_next, failed, emitted, scenario, callables_return>>
    /\ UNCHANGED <<methodVars, graphVars, queueVars, moduleVars, raceVars, handoffVars>>

\* MonitorVisit without the is_alive() test.
MonitorVisitNoAliveCheck ==
    /\ monitor_pc = "visit"
    /\ IF ready_processes = << >>
       THEN /\ monitor_pc' = "check"
            /\ UNCHANGED <<ready_processes, threads, worker>>
       ELSE LET p == Head(ready_processes)
            IN IF process_exited_manually[p]
               THEN /\ ready_processes' = Tail(ready_processes)
                    /\ UNCHANGED <<monitor_pc, threads, worker>>
               ELSE /\ threads' = [threads EXCEPT ![p] = "alive"]
                    /\ worker' = [worker EXCEPT ![p] = NewWorker]
                    /\ monitor_pc' = "reset"
                    /\ UNCHANGED ready_processes
    /\ UNCHANGED <<process_exited_manually, stop_event, main_pc, main_next, failed,
                   emitted, scenario, callables_return>>
    /\ UNCHANGED <<methodVars, graphVars, queueVars, moduleVars, raceVars, handoffVars>>

\* "for process_index in ready_processes": skip, or start a new thread.
MonitorVisit ==
    /\ monitor_pc = "visit"
    /\ IF ready_processes = << >>
       THEN /\ monitor_pc' = "check"
            /\ UNCHANGED <<ready_processes, threads, worker>>
       ELSE LET p == Head(ready_processes)
            IN IF threads[p] = "alive" \/ process_exited_manually[p]
               THEN /\ ready_processes' = Tail(ready_processes)
                    /\ UNCHANGED <<monitor_pc, threads, worker>>
               ELSE /\ threads' = [threads EXCEPT ![p] = "alive"]
                    /\ worker' = [worker EXCEPT ![p] = NewWorker]
                    /\ monitor_pc' = "reset"
                    /\ UNCHANGED ready_processes
    /\ UNCHANGED <<process_exited_manually, stop_event, main_pc, main_next, failed,
                   emitted, scenario, callables_return>>
    /\ UNCHANGED <<methodVars, graphVars, queueVars, moduleVars, raceVars, handoffVars>>

\* "self.process_readiness[process_index] = False  # Reset readiness"
MonitorReset ==
    /\ monitor_pc = "reset"
    /\ process_readiness' = [process_readiness EXCEPT ![Head(ready_processes)] = FALSE]
    /\ ready_processes' = Tail(ready_processes)
    /\ monitor_pc' = "visit"
    /\ UNCHANGED <<connections, graph_phase, processes, process_mapping, layers,
                   layer_mapping, process_layer_mapping, in_process_layer_mapping>>
    /\ UNCHANGED <<worker, threads, process_exited_manually, stop_event, main_pc,
                   main_next, failed, emitted, scenario, callables_return>>
    /\ UNCHANGED <<methodVars, queueVars, moduleVars, raceVars, handoffVars>>

MonitorStep == MonitorCheck \/ MonitorVisit \/ MonitorReset

ProcessRange == 0..2

ENext ==
    \/ MainCreate \/ MainStartMonitor \/ MainReturn \/ KeyboardInterrupt
    \/ MonitorCheck \/ MonitorVisit \/ MonitorReset
    \/ \E p \in ProcessRange : WorkerStart(p)
    \/ \E p \in ProcessRange : WorkerOuter(p)
    \/ \E p \in ProcessRange : WorkerInner(p)
    \/ \E p \in ProcessRange : WorkerCheckReady(p)
    \/ \E p \in ProcessRange : WorkerExecute(p)
    \/ \E p \in ProcessRange : WorkerDeliver(p)
    \/ \E p \in ProcessRange : WorkerNotify(p)
    \/ \E p \in ProcessRange : WorkerRequeue(p)

SpecExec == EInit /\ [][ENext]_vars

\* The graphs whose callables all return values of their arity.
FInit == EInit /\ callables_return = TRUE

\* The split graphs, run to the end without Ctrl+C, with callables that return.
SplitInit ==
    /\ \E sc \in SplitScenarios : ScenarioInit(sc)
    /\ callables_return = TRUE

\* The producer of a split is a source, always ready: execute does not return.
SplitNext ==
    \/ MainCreate \/ MainStartMonitor
    \/ MonitorCheck \/ MonitorVisit \/ MonitorReset
    \/ \E p \in ProcessRange : WorkerStart(p)
    \/ \E p \in ProcessRange : WorkerOuter(p)
    \/ \E p \in ProcessRange : WorkerInner(p)
    \/ \E p \in ProcessRange : WorkerCheckReady(p)
    \/ \E p \in ProcessRange : WorkerExecute(p)
    \/ \E p \in ProcessRange : WorkerDeliver(p)
    \/ \E p \in ProcessRange : WorkerNotify(p)
    \/ \E p \in ProcessRange : WorkerRequeue(p)

SpecSplit == SplitInit /\ [][SplitNext]_vars

\* The graphs of LayerScenarios, with interrupts and failing callables.
LayerInit ==
    /\ \E sc \in LayerScenarios : ScenarioInit(sc)
    /\ callables_return \in BOOLEAN

SpecLayers == LayerInit /\ [][ENext]_vars

\* The graph of FeedScenarios, run without Ctrl+C, with callables that
\* return.  Runs are followed as long as no queue holds more than MaxBuffered
\* rows.
FeedInit ==
    /\ \E sc \in FeedScenarios : ScenarioInit(sc)
    /\ callables_return = TRUE

BufferedWithin(iq) ==
    \A m \in DOMAIN iq : \A i \in DOMAIN iq[m] : Len(iq[m][i].arrow_table) <= MaxBuffered

\* The delivery of WorkerDeliver, within the rows followed.
FeedDeliver(p) == WorkerDeliver(p) /\ BufferedWithin(input_queue')

\* P is a source, always ready: execute does not return.
FeedNext ==
    \/ MainCreate \/ MainStartMonitor
    \/ MonitorCheck \/ MonitorVisit \/ MonitorReset
    \/ \E p \in ProcessRange : WorkerStart(p)
    \/ \E p \in ProcessRange : WorkerOuter(p)
    \/ \E p \in ProcessRange : WorkerInner(p)
    \/ \E p \in ProcessRange : WorkerCheckReady(p)
    \/ \E p \in ProcessRange : WorkerExecute(p)
    \/ \E p \in ProcessRange : FeedDeliver(p)
    \/ \E p \in ProcessRange : WorkerNotify(p)
    \/ \E p \in ProcessRange : WorkerRequeue(p)

SpecFeed == FeedInit /\ [][FeedNext]_vars

\* The threads are scheduled fairly: a worker or the monitor that can take a
\* step eventually takes one.
SpecExecFair ==
    /\ FInit
    /\ [][ENext]_vars
    /\ \A p \in ProcessRange : WF_vars(WorkerStep(p))
    /\ WF_vars(MonitorStep)

\* The graphs with a process that starts unready: a consumer behind an async
\* edge, and a method that nothing feeds.
WakeInit ==
    /\ \E sc \in {"async", "idle"} : ScenarioInit(sc)
    /\ callables_return \in BOOLEAN

\* The steps of the main thread inside execute, Ctrl+C apart.
MainStep == MainCreate \/ MainStartMonitor \/ MainReturn

\* Fair scheduling of all the threads, the main thread included, with
\* callables that may raise: a producer whose callable raises emits nothing
\* further.
SpecExecFairRaise ==
    /\ WakeInit
    /\ [][ENext]_vars
    /\ \A p \in ProcessRange : WF_vars(WorkerStep(p))
    /\ WF_vars(MonitorStep)
    /\ WF_vars(MainStep)

\* The graph A -> B over an async edge, with the slot of B sticky or not, and
\* the method that nothing feeds; callables may raise.
StickyInit ==
    /\ \E sc \in {"async", "idle"} \cup StickyScenarios : ScenarioInit(sc)
    /\ callables_return \in BOOLEAN

\* Fair scheduling of all the threads over these graphs.
SpecSticky ==
    /\ StickyInit
    /\ [][ENext]_vars
    /\ \A p \in ProcessRange : WF_vars(WorkerStep(p))
    /\ WF_vars(MonitorStep)
    /\ WF_vars(MainStep)

\* ------------------------------------------- SpecModule: the module tree
\* Three modules; a connection is identified by its key (source, sink, data),
\* which is what Connection.__eq__ and __hash__ compare.
ModuleIds == {1, 2, 3}

ConnectionKeys == {1, 2}

RECURSIVE ModulesBelow(_)
\* A module and the modules below it.
ModulesBelow(m) == {m} \cup UNION {ModulesBelow(c) : c \in modules[m]}

\* The modules of the tree that m is part of.
Tree(m) ==
    LET above == {r \in ModuleIds : m \in ModulesBelow(r)}
        root == CHOOSE r \in above : \A q \in above : q \in ModulesBelow(r)
    IN ModulesBelow(root)

RECURSIVE VisibleObjects(_)
\* get_connections as a set of objects <<owner, key>>: the module's own
\* connections and those of its children, less the keys it has blocked.
VisibleObjects(m) ==
    {o \in ({<<m, k>> : k \in module_connections[m]}
              \cup UNION {VisibleObjects(c) : c \in modules[m]}) :
        o[2] \notin blocked_connections[m]}

\* get_connections(recursive=True): a set of Connections holds one per key.
get_connections(m) == {o[2] : o \in VisibleObjects(m)}

\* Module n of the tree owns a connection with key k that is not blocked.
Present(n, k) == k \in module_connections[n] /\ <<n, k>> \notin blocked_flags

\* _ensure_unique_connection raises for this connection.
NotUnique(m, k) == k \in get_connections(m)

ModInit ==
    /\ QueueIdle
    /\ MethodIdle
    /\ GraphIdle
    /\ ExecIdle
    /\ RaceIdle
    /\ HandoffIdle
    /\ modules = [m \in ModuleIds |-> {}]
    /\ module_connections = [m \in ModuleIds |-> {}]
    /\ blocked_connections = [m \in ModuleIds |-> {}]
    /\ blocked_flags = {}
    /\ connected = [k \in ConnectionKeys |-> 0]
    /\ last_call = NoCall

\* create_connection: the Connection is constructed, which registers its
\* Connected entries on the interfaces of its endpoints, then checked against
\* get_connections(), then added to the module's own set.
CreateConnection ==
    \E m \in ModuleIds, k \in ConnectionKeys :
        /\ connected[k] < MaxCreates
        /\ connected' = [connected EXCEPT ![k] = @ + 1]
        /\ module_connections' =
              IF NotUnique(m, k) THEN module_connections
              ELSE [module_connections EXCEPT ![m] = @ \cup {k}]
        /\ last_call' = [op |-> "create",
                         duplicate |-> \E n \in Tree(m) : Present(n, k),
                         refused |-> NotUnique(m, k)]
        /\ UNCHANGED <<modules, blocked_connections, blocked_flags>>
        /\ UNCHANGED <<queueVars, methodVars, graphVars, execVars, raceVars, handoffVars>>

\* add_modules([mod]): every connection visible from mod is checked against
\* get_connections() of the parent; then mod is appended unless it is there.
\* The modules stay a tree: mod has no other parent and is not above m.
AddModules ==
    \E m \in ModuleIds, mod \in ModuleIds :
        /\ m \notin ModulesBelow(mod)
        /\ \A n \in ModuleIds \ {m} : mod \notin modules[n]
        /\ LET carried == get_connections(mod)
               refused == \E k \in carried : NotUnique(m, k)
           IN /\ modules' = IF refused THEN modules
                            ELSE [modules EXCEPT ![m] = @ \cup {mod}]
              /\ last_call' =
                    [op |-> "add",
                     duplicate |-> \E k \in carried :
                         \E n \in Tree(m) \ ModulesBelow(mod) : Present(n, k),
                     refused |-> refused]
        /\ UNCHANGED <<module_connections, blocked_connections, blocked_flags, connected>>
        /\ UNCHANGED <<queueVars, methodVars, graphVars, execVars, raceVars, handoffVars>>

\* block_connection(source, sink, data) with both sides given: each visible
\* connection that matches is blocked_flags and added to _blocked_connections.
BlockConnection ==
    \E m \in ModuleIds, k \in ConnectionKeys :
        /\ k \in get_connections(m)
        /\ \E o \in VisibleObjects(m) :
              /\ o[2] = k
              /\ blocked_flags' = blocked_flags \cup {o}
        /\ blocked_connections' = [blocked_connections EXCEPT ![m] = @ \cup {k}]
        /\ last_call' = [op |-> "block", duplicate |-> FALSE, refused |-> FALSE]
        /\ UNCHANGED <<modules, module_connections, connected>>
        /\ UNCHANGED <<queueVars, methodVars, graphVars, execVars, raceVars, handoffVars>>

ModNext == CreateConnection \/ AddModules \/ BlockConnection

SpecModule == ModInit /\ [][ModNext]_vars

\* ------------------------------- SpecRace: one queue between two threads
\* The queue of an async edge: the worker of the producer's process appends,
\* the worker of the consumer's process pops.  DataQueue holds no lock, so the
\* reads and the writes of self.arrow_table of the two calls interleave.
RaceInit ==
    /\ MethodIdle
    /\ GraphIdle
    /\ ExecIdle
    /\ ModuleIdle
    /\ RaceIdle
    /\ HandoffIdle
    /\ \E size \in 1..MaxRaceQueueSize, sticky \in BOOLEAN :
         queue = DataQueue(size, sticky)
    /\ dropped = NoDrop
    /\ popped = NoItem
    /\ appends = 0

\* append(item), _append_table up to the concat: the overflow test and
\* table_to_merge, read from self.arrow_table.
AppendLoad ==
    /\ appender.pc = "idle"
    /\ appends < MaxAppends
    /\ appends' = appends + 1
    /\ appender' = [pc |-> "loaded",
                    table |-> IF Len(queue.arrow_table) >= queue.size + queue.num_sync_items
                              THEN Tail(queue.arrow_table) ELSE queue.arrow_table]
    /\ evicted' = IF Len(queue.arrow_table) >= queue.size + queue.num_sync_items
                  THEN evicted \cup {Head(queue.arrow_table).v} ELSE evicted
    /\ UNCHANGED <<queue, dropped, popped, popper, pop_log>>
    /\ UNCHANGED <<methodVars, graphVars, execVars, moduleVars, handoffVars>>

\* self.arrow_table = pa.concat_tables([table_to_merge, table])
AppendStore ==
    /\ appender.pc = "loaded"
    /\ queue' = [queue EXCEPT !.arrow_table = Append(appender.table, AsyncItem(appends))]
    /\ appender' = Idle
    /\ UNCHANGED <<dropped, popped, appends, popper, pop_log, evicted>>
    /\ UNCHANGED <<methodVars, graphVars, execVars, moduleVars, handoffVars>>

\* pop(), _pop_table up to the slice: the row that is returned; a sticky
\* queue with one row returns here.
PopTake ==
    /\ popper.pc = "idle"
    /\ ~IsEmpty(queue)
    /\ Len(pop_log) < MaxAppends
    /\ pop_log' = Append(pop_log, Head(queue.arrow_table).v)
    /\ popper' = IF queue.sticky /\ Len(queue.arrow_table) = 1
                 THEN Idle ELSE [pc |-> "taken", table |-> << >>]
    /\ UNCHANGED <<queue, dropped, popped, appends, appender, evicted>>
    /\ UNCHANGED <<methodVars, graphVars, execVars, moduleVars, handoffVars>>

\* The right-hand side of self.arrow_table = self.arrow_table.slice(1).
PopSlice ==
    /\ popper.pc = "taken"
    /\ popper' = [pc |-> "sliced",
                  table |-> IF IsEmpty(queue) THEN << >> ELSE Tail(queue.arrow_table)]
    /\ UNCHANGED <<queue, dropped, popped, appends, appender, pop_log, evicted>>
    /\ UNCHANGED <<methodVars, graphVars, execVars, moduleVars, handoffVars>>

\* The assignment of self.arrow_table = self.arrow_table.slice(1).
PopStore ==
    /\ popper.pc = "sliced"
    /\ queue' = [queue EXCEPT !.arrow_table = popper.table]
    /\ popper' = Idle
    /\ UNCHANGED <<dropped, popped, appends, appender, pop_log, evicted>>
    /\ UNCHANGED <<methodVars, graphVars, execVars, moduleVars, handoffVars>>

RaceNext == AppendLoad \/ AppendStore \/ PopTake \/ PopSlice \/ PopStore

SpecRace == RaceInit /\ [][RaceNext]_vars

\* ------------------- SpecHandoff: receive_data against pop_data_for_execution
\* Method 1 is a consumer with n slots, fed over a DIRECT async connection by
\* method 2, which runs in another process.  The worker of method 2 is inside
\* receive_data of method 1 while the worker of method 1 tests readiness and
\* is inside pop_data_for_execution; neither function takes a lock, so the
\* statements of the two interleave.  DataQueue.append and DataQueue.pop are
\* each taken as one step here (SpecRace interleaves their insides).
HandoffInit ==
    /\ QueueIdle
    /\ ModuleIdle
    /\ RaceIdle
    /\ HandoffIdle
    /\ GraphIdle
    /\ ExecIdle
    /\ methods = 1..2
    /\ \E n \in 1..MaxSinks :
         /\ sinks = [m \in 1..2 |-> IF m = 1 THEN n ELSE 0]
         /\ sources = [m \in 1..2 |-> IF m = 1 THEN 0 ELSE n]
         /\ \E size \in [sink_indices(n) -> 1..MaxQueueSize],
               sticky \in [sink_indices(n) -> BOOLEAN] :
              LET ms == NewMethodState(n, size, sticky)
                  empty == NewMethodState(0, << >>, << >>)
              IN /\ input_queue = [m \in 1..2 |->
                        IF m = 1 THEN ms.input_queue ELSE empty.input_queue]
                 /\ remaining_for_execution = [m \in 1..2 |->
                        IF m = 1 THEN ms.remaining_for_execution ELSE {}]
    /\ dependency_to_configuration =
           [m \in 1..2 |-> IF m = 1 THEN <<DependencyConfiguration(2, None, FALSE)>>
                           ELSE << >>]
    /\ dependent_to_configuration =
           [m \in 1..2 |-> IF m = 2 THEN <<DependentConfiguration(1, None, FALSE)>>
                           ELSE << >>]
    /\ call_log = [m \in 1..2 |-> << >>]
    /\ receives = 0
    /\ events = << >>

\* The next slot of the loop over the sink indices, or the return.
NextSlot(thread, pc) ==
    IF thread.sink_index + 1 < sinks[1]
    THEN [thread EXCEPT !.pc = pc, !.sink_index = @ + 1]
    ELSE Outside

\* The worker of method 2 calls receive_data(data, ...) of method 1.
ReceiveCall ==
    /\ receiver.pc = "idle"
    /\ receives < MaxReceives
    /\ receives' = receives + 1
    /\ receiver' = [Outside EXCEPT !.pc = "append"]
    /\ UNCHANGED <<methods, sinks, sources, input_queue, remaining_for_execution,
                   dependency_to_configuration, dependent_to_configuration,
                   call_log, events, executor>>
    /\ UNCHANGED <<queueVars, graphVars, execVars, moduleVars, raceVars>>

\* "self.input_queue[sink_index].append(data[sink_index], sync)"
ReceiveAppend ==
    /\ receiver.pc = "append"
    /\ input_queue' = [input_queue EXCEPT ![1][receiver.sink_index] =
           QueueAppend(@, receives, DictGet(dependency_to_configuration[1], 2).sync)]
    /\ receiver' = [receiver EXCEPT !.pc = "discard"]
    /\ UNCHANGED <<methods, sinks, sources, remaining_for_execution,
                   dependency_to_configuration, dependent_to_configuration,
                   call_log, receives, events, executor>>
    /\ UNCHANGED <<queueVars, graphVars, execVars, moduleVars, raceVars>>

\* "self.remaining_for_execution.discard(sink_index)"
ReceiveDiscard ==
    /\ receiver.pc = "discard"
    /\ remaining_for_execution' =
           [remaining_for_execution EXCEPT ![1] = @ \ {receiver.sink_index}]
    /\ receiver' = NextSlot(receiver, "append")
    /\ UNCHANGED <<methods, sinks, sources, input_queue,
                   dependency_to_configuration, dependent_to_configuration,
                   call_log, receives, events, executor>>
    /\ UNCHANGED <<queueVars, graphVars, execVars, moduleVars, raceVars>>

\* The worker of method 1 finds it ready ("if not method.is_ready_for_execution"
\* is false) and calls execute(), whose pop_data_for_execution asserts the
\* same.  A worker that finds the method unready changes nothing.
ExecuteReady ==
    /\ executor.pc = "idle"
    /\ is_ready_for_execution(MethodState(1))
    /\ executor' = [Outside EXCEPT !.pc = "pop"]
    /\ UNCHANGED <<methodVars, receiver>>
    /\ UNCHANGED <<queueVars, graphVars, execVars, moduleVars, raceVars>>

\* "data.append(self.input_queue[sink_index].pop())"; _pop_table asserts that
\* the queue is not empty, and the AssertionError ends the worker.
PopQueue ==
    /\ executor.pc = "pop"
    /\ IF IsEmpty(input_queue[1][executor.sink_index])
       THEN /\ executor' = [executor EXCEPT !.pc = "raised"]
            /\ UNCHANGED input_queue
       ELSE /\ input_queue' = [input_queue EXCEPT ![1][executor.sink_index] = QueuePop(@)]
            /\ executor' = [executor EXCEPT !.pc = "is_empty"]
    /\ UNCHANGED <<methods, sinks, sources, remaining_for_execution,
                   dependency_to_configuration, dependent_to_configuration,
                   call_log, receives, events, receiver>>
    /\ UNCHANGED <<queueVars, graphVars, execVars, moduleVars, raceVars>>

\* "if self.input_queue[sink_index].is_empty():"
PopIsEmpty ==
    /\ executor.pc = "is_empty"
    /\ executor' = [executor EXCEPT !.pc = "add",
                                    !.empty = IsEmpty(input_queue[1][executor.sink_index])]
    /\ UNCHANGED <<methodVars, receiver>>
    /\ UNCHANGED <<queueVars, graphVars, execVars, moduleVars, raceVars>>

\* "self.remaining_for_execution.add(sink_index)"
PopAdd ==
    /\ executor.pc = "add"
    /\ remaining_for_execution' =
           [remaining_for_execution EXCEPT
               ![1] = IF executor.empty THEN @ \cup {executor.sink_index} ELSE @]
    /\ executor' = NextSlot(executor, "pop")
    /\ UNCHANGED <<methods, sinks, sources, input_queue,
                   dependency_to_configuration, dependent_to_configuration,
                   call_log, receives, events, receiver>>
    /\ UNCHANGED <<queueVars, graphVars, execVars, moduleVars, raceVars>>

HandoffNext ==
    \/ ReceiveCall \/ ReceiveAppend \/ ReceiveDiscard
    \/ ExecuteReady \/ PopQueue \/ PopIsEmpty \/ PopAdd

SpecHandoff == HandoffInit /\ [][HandoffNext]_vars

\* --------------------------- SpecTree: module calls and the methods' dicts
\* The calls of SpecModule on a root module (1) with one child (2), followed
\* down to the dependency and dependent dicts of the methods that the
\* connections join: a source S and two one-slot consumers K1 and K2.
TreeModules == {1, 2}

TreeSinks == <<0, 1, 1>>
TreeSources == <<1, 0, 0>>

\* The Connection of key k that a call with the given sync flag constructs:
\* key 1 is the DIRECT connection S -> K1, key 2 is S -> K2.
KeyConnection(k, sync) == Connection(<<1>>, <<k + 1>>, sync)

TreeInit ==
    /\ QueueIdle
    /\ GraphIdle
    /\ ExecIdle
    /\ RaceIdle
    /\ HandoffIdle
    /\ methods = 1..Len(TreeSinks)
    /\ sinks = TreeSinks
    /\ sources = TreeSources
    /\ input_queue = [m \in 1..Len(TreeSinks) |->
          NewMethodState(TreeSinks[m], [i \in sink_indices(TreeSinks[m]) |-> 1],
                         [i \in sink_indices(TreeSinks[m]) |-> FALSE]).input_queue]
    /\ remaining_for_execution = [m \in 1..Len(TreeSinks) |-> sink_indices(TreeSinks[m])]
    /\ dependency_to_configuration = [m \in 1..Len(TreeSinks) |-> << >>]
    /\ dependent_to_configuration = [m \in 1..Len(TreeSinks) |-> << >>]
    /\ call_log = [m \in 1..Len(TreeSinks) |-> << >>]
    /\ receives = 0
    /\ events = << >>
    /\ modules = [m \in TreeModules |-> IF m = 1 THEN {2} ELSE {}]
    /\ module_connections = [m \in TreeModules |-> {}]
    /\ blocked_connections = [m \in TreeModules |-> {}]
    /\ blocked_flags = {}
    /\ connected = [k \in ConnectionKeys |-> 0]
    /\ last_call = NoCall

\* The rest of a DataMethod, which no call on a module touches.
MethodFrame ==
    UNCHANGED <<methods, sinks, sources, input_queue, remaining_for_execution,
                call_log, receives, events>>

\* create_connection: the Connection is constructed, which registers its
\* pairs on the methods of its endpoints (add_dependency, add_dependent),
\* then checked against get_connections(), then added to the module's own
\* set.
TreeCreateConnection ==
    \E m \in TreeModules, k \in ConnectionKeys, sync \in BOOLEAN :
        /\ connected[k] < MaxCreates
        /\ connected' = [connected EXCEPT ![k] = @ + 1]
        /\ LET cfg == AddPairs(Configs(dependency_to_configuration,
                                       dependent_to_configuration),
                               KeyConnection(k, sync), 1)
           IN /\ dependency_to_configuration' = cfg.dependency
              /\ dependent_to_configuration' = cfg.dependent
        /\ module_connections' =
              IF NotUnique(m, k) THEN module_connections
              ELSE [module_connections EXCEPT ![m] = @ \cup {k}]
        /\ last_call' = [op |-> "create",
                         duplicate |-> \E n \in TreeModules : Present(n, k),
                         refused |-> NotUnique(m, k)]
        /\ MethodFrame
        /\ UNCHANGED <<modules, blocked_connections, blocked_flags>>
        /\ UNCHANGED <<queueVars, graphVars, execVars, raceVars, handoffVars>>

\* block_connection(source, sink, data) with both sides given: each visible
\* connection that matches is blocked (Connection.block clears its flag and
\* the entries of its pairs) and added to _blocked_connections.
TreeBlockConnection ==
    \E m \in TreeModules, k \in ConnectionKeys :
        /\ k \in get_connections(m)
        /\ \E o \in VisibleObjects(m) :
              /\ o[2] = k
              /\ blocked_flags' = blocked_flags \cup {o}
        /\ LET cfg == BlockPairs(Configs(dependency_to_configuration,
                                         dependent_to_configuration),
                                 KeyConnection(k, FALSE), 1)
           IN /\ dependency_to_configuration' = cfg.dependency
              /\ dependent_to_configuration' = cfg.dependent
        /\ blocked_connections' = [blocked_connections EXCEPT ![m] = @ \cup {k}]
        /\ last_call' = [op |-> "block", duplicate |-> FALSE, refused |-> FALSE]
        /\ MethodFrame
        /\ UNCHANGED <<modules, module_connections, connected>>
        /\ UNCHANGED <<queueVars, graphVars, execVars, raceVars, handoffVars>>

TreeNext == TreeCreateConnection \/ TreeBlockConnection

SpecTree == TreeInit /\ [][TreeNext]_vars

\* ----------------------------------------------------------------- claims
\* C8: if a method execution fails inside a worker (the callable raises, or
\* returns a value of the wrong arity), the shutdown signal is set.
FailureSetsStopEvent == failed # {} => stop_event

AliveWorkers == {p \in ProcessIndices : threads[p] = "alive"}

AllStopped ==
    /\ AliveWorkers = {}
    /\ monitor_pc \in {"unstarted", "done"}

InFlight(p) ==
    /\ p \in ProcessIndices
    /\ threads[p] = "alive"
    /\ worker[p].pc \in {"execute", "deliver", "notify"}

NoNewWorkAfterStop ==
    \A p \in ProcessIndices :
        worker[p].observed_stop => worker[p].pc \in {"inner", "outer"}

\* A call in flight goes on to the end of its events, stop event or not.
InFlightCompletes ==
    \A p \in ProcessIndices :
        InFlight(p) => \/ InFlight(p)'
                       \/ threads'[p] = "alive" /\ worker'[p].pc = "requeue"

Expected(n) == [i \in 1..n |-> <<i>>]

\* C10: in the chain A -> B -> C of sync DIRECT connections, with A a source
\* emitting 1, 2, 3, ..., the three methods form one process driven by one
\* worker; C consumes exactly 1, 2, 3, ... in that order, and a record is
\* consumed by C before A emits the next one.
ChainInOrder ==
    scenario = "chain" =>
        /\ \E p \in ProcessRange : ProcessIndices = {p} /\ processes[p] = {1, 2, 3}
        /\ Cardinality(AliveWorkers) <= 1
        /\ call_log[2] = Expected(Len(call_log[2]))
        /\ call_log[3] = Expected(Len(call_log[3]))
        /\ Len(call_log[3]) < MaxLog => emitted[1] <= Len(call_log[3]) + 1

ChainInOrderWitness ==
    /\ scenario = "chain"
    /\ call_log[3] = Expected(3)
    /\ failed = {}
    /\ ~stop_event

\* C13: in a SPLIT from P with two outputs to C_A and C_B, whatever reaches
\* C_A (the records in its slot, the arguments of its calls) is output 0 of P
\* and whatever reaches C_B is output 1; when the split is async, P, C_A and
\* C_B are three processes of one method each.
SplitRoutesByIndex ==
    scenario \in SplitScenarios =>
        /\ \A d \in {2, 3} :
              /\ \A k \in 1..Len(input_queue[d][0].arrow_table) :
                    OutputIndex(input_queue[d][0].arrow_table[k].v) = d - 2
              /\ \A k \in 1..Len(call_log[d]) :
                    OutputIndex(call_log[d][k][1]) = d - 2
        /\ scenario = "split" =>
              /\ Cardinality(ProcessIndices) = 3
              /\ \A m \in methods : processes[process_mapping[m]] = {m}

\* C13 witness: in the async split both consumers hold a record of P.
SplitDelivered ==
    /\ scenario = "split"
    /\ emitted[1] >= 1
    /\ ~IsEmpty(input_queue[2][0])
    /\ ~IsEmpty(input_queue[3][0])

\* C14: in P -> S over an async edge, S is a process of its own, and as long
\* as P has not emitted, the thread of S's process has not been started, its
\* worker has taken no step (so S has not executed) and the slot of S is
\* empty: whatever S's process does, it does after P's first emission.
IdleUntilProducerEmits ==
    scenario = "async" =>
        /\ process_mapping[2] # process_mapping[1]
        /\ emitted[1] = 0 =>
              /\ threads[process_mapping[2]] \in {"none", "new"}
              /\ worker[process_mapping[2]] = NewWorker
              /\ ~process_readiness[process_mapping[2]]
              /\ IsEmpty(input_queue[2][0])

\* C14 witness: P has emitted, the monitor has started the worker of S's
\* process, and S has just executed.
IdleProcessWoken ==
    /\ scenario = "async"
    /\ emitted[1] >= 1
    /\ threads[process_mapping[2]] = "alive"
    /\ worker[process_mapping[2]].pc = "requeue"
    /\ worker[process_mapping[2]].method = 2

\* A sticky queue of capacity 1 that holds the async record x alone, with no
\* sync record pending: the queue after append(x, sync=false) on the empty one.
HoldsSticky(q) ==
    /\ q.sticky
    /\ q.size = 1
    /\ q.num_sync_items = 0
    /\ Len(q.arrow_table) = 1
    /\ ~q.arrow_table[1].s

\* C15: in a sticky queue of capacity 1 that holds x after append(x,
\* sync=false), a pop returns x and leaves the queue as it was, so every
\* later pop returns x again; an append(y) replaces x by y and leaves the
\* queue in the same situation with y, so the next pop returns y.
StickyRoundTrip ==
    [][HoldsSticky(queue) =>
          /\ appends' = appends =>
                /\ popped' = queue.arrow_table[1]
                /\ queue' = queue
          /\ (appends' = appends + 1 /\ ~queue'.arrow_table[Len(queue'.arrow_table)].s) =>
                /\ HoldsSticky(queue')
                /\ queue'.arrow_table[1].v = appends + 1
                /\ PopValue(queue') = [v |-> appends + 1, s |-> FALSE]]_vars

\* C15 witness: x was appended and popped, then y was appended, and the pop
\* after it returned y and left y in the queue.
StickyRoundTripWitness ==
    /\ HoldsSticky(queue)
    /\ appends = 2
    /\ queue.arrow_table = <<AsyncItem(2)>>
    /\ popped = AsyncItem(2)

\* C16: whatever the assembly, calling block() on a connection and then
\* again on the same connection leaves the connection and every dependency
\* and dependent configuration entry as the first call left them.
BlockIdempotent ==
    \A c \in connections :
        block(block(Assembly, c), [c EXCEPT !.active = FALSE]) = block(Assembly, c)

\* C16 witness: a connection has been blocked, and the entries of its pairs
\* are inactive on both ends.
BlockIdempotentWitness ==
    \E c \in connections :
        /\ ~c.active
        /\ block(Assembly, c) = Assembly
        /\ \A k \in 1..Len(ConnectionPairs(c)) :
              LET pr == ConnectionPairs(c)[k]
              IN /\ ~DictGet(dependency_to_configuration[pr.consumer], pr.producer).active
                 /\ ~DictGet(dependent_to_configuration[pr.producer], pr.consumer).active

\* C17: a worker that is handing the output of a call to the dependents holds
\* a value of the declared producer arity of the method: a call whose callable
\* returned a value of another arity never reaches the deliveries.
DeliveredOutputHasArity ==
    \A p \in ProcessIndices :
        worker[p].pc \in {"deliver", "notify"} =>
            Len(worker[p].method_output) = sources[worker[p].method]

\* C17 witness: the first call of the source of the chain returned a value
\* that __call__ refused (or raised): its worker has ended and the slot of the
\* dependent is still empty.
ArityRefusedWitness ==
    /\ scenario = "chain"
    /\ ~callables_return
    /\ process_mapping[1] \in failed
    /\ worker[process_mapping[1]].pc = "done"
    /\ emitted[1] = 0
    /\ IsEmpty(input_queue[2][0])

\* C18: a create_connection or add_modules call that brings a connection
\* whose key is already the key of a connection of the module tree (one that
\* is not blocked) is refused.
DuplicateRefused == last_call.duplicate => last_call.refused

\* The slots of method m that the dependency entry e feeds.
FedSlots(m, e) ==
    IF e.merge_sink_index = None THEN sink_indices(sinks[m]) ELSE {e.merge_sink_index}

\* C19: every slot fed by a sync connection that was accepted has capacity 1
\* and is not sticky.
SyncSlotsCapacityOne ==
    \A m \in methods :
        \A k \in 1..Len(dependency_to_configuration[m]) :
            dependency_to_configuration[m][k].sync =>
                \A i \in FedSlots(m, dependency_to_configuration[m][k]) :
                    /\ input_queue[m][i].size = 1
                    /\ ~input_queue[m][i].sticky

\* The values held in the queue.
Buffered == {queue.arrow_table[k].v : k \in 1..Len(queue.arrow_table)}

\* C20: whenever no append and no pop is under way, no record has been popped
\* twice (unless the queue is sticky) and every record appended is in the
\* queue, has been popped, or was dropped by the overflow test of an append.
RecordsPoppedOnceNeverLost ==
    (appender.pc = "idle" /\ popper.pc = "idle") =>
        /\ ~queue.sticky =>
              \A i, j \in 1..Len(pop_log) : pop_log[i] = pop_log[j] => i = j
        /\ \A v \in 1..appends :
              v \in Buffered \cup evicted \cup {pop_log[k] : k \in 1..Len(pop_log)}

\* An active async entry of the dependency dict of c names p.
ActiveAsyncEdge(p, c) ==
    \E i \in 1..Len(dependency_to_configuration[c]) :
        /\ dependency_to_configuration[c][i].key = p
        /\ dependency_to_configuration[c][i].active
        /\ ~dependency_to_configuration[c][i].sync

\* C30: in every built graph, each active async dependency edge joins methods
\* of two different processes.
AsyncEdgesCrossProcesses ==
    graph_phase = "built" =>
        \A p, c \in methods :
            ActiveAsyncEdge(p, c) => process_mapping[p] # process_mapping[c]

\* The processes whose workers append to slot i of method m: the processes of
\* the producers of the active entries that feed the slot.
Writers(m, i) ==
    {process_mapping[dependency_to_configuration[m][k].key] :
        k \in {j \in 1..Len(dependency_to_configuration[m]) :
                  /\ dependency_to_configuration[m][j].active
                  /\ i \in FedSlots(m, dependency_to_configuration[m][j])}}

\* C26: in every built graph, each input queue that is fed is written by the
\* worker of exactly one process.  (It is read by the worker of the
\* consumer's process alone: only pop_data_for_execution of the method pops
\* it.)
SingleWriterPerQueue ==
    graph_phase = "built" =>
        \A m \in methods : \A i \in sink_indices(sinks[m]) :
            Cardinality(Writers(m, i)) <= 1

\* C27: across an async edge the records the consumer pops appear in the
\* order in which the producer emitted them (the producer appends records
\* 1, 2, 3, ... in this order): records may be missing, none is popped after
\* a record that was emitted later.
PoppedInEmissionOrder ==
    \A i, j \in 1..Len(pop_log) : i < j => pop_log[i] <= pop_log[j]

\* C25: at most one worker thread runs a process.  Threads are started by
\* execute (each thread once, before the monitor exists) and by the monitor;
\* every step in which either starts a thread for a process finds the thread
\* of that process not alive.
OneWorkerPerProcess ==
    [][/\ (monitor_pc = "visit" /\ monitor_pc' = "reset") =>
              threads[Head(ready_processes)] # "alive"
       /\ \A p \in ProcessRange :
              (main_next # main_next' /\ main_next' = p + 1 /\ threads'[p] = "alive") =>
                  threads[p] = "none"]_vars

\* C25 witness: the monitor is about to visit a process that is marked ready
\* while its worker is inside a callable; it will skip it.
WorkerStillExecutingVisited ==
    /\ monitor_pc = "visit"
    /\ ready_processes # << >>
    /\ threads[Head(ready_processes)] = "alive"
    /\ worker[Head(ready_processes)].pc = "execute"
    /\ process_readiness[Head(ready_processes)]

\* C21: once receive_data of the producer's worker and pop_data_for_execution
\* of the consumer's worker have both completed, the consumer is not left
\* marked not-ready while all of its input queues are non-empty.
ReadyWhenAllQueuesFilled ==
    (receiver.pc = "idle" /\ executor.pc = "idle") =>
        ((\A i \in sink_indices(sinks[1]) : ~IsEmpty(input_queue[1][i])) =>
            is_ready_for_execution(MethodState(1)))

\* C22: a worker that found the method ready never pops an empty queue.
PopNeverFailsOnEmpty ==
    executor.pc # "raised"

\* The step in which the worker of process p parks: it marks the process as
\* not exited manually and returns.
Parks(p) ==
    /\ p \in ProcessIndices
    /\ process_exited_manually[p]
    /\ ~process_exited_manually'[p]

\* C24: a worker parks only at a moment when every method of the first layer
\* of its process is unready.
ParksOnlyWhenFirstLayerUnready ==
    [][\A p \in ProcessRange :
          Parks(p) =>
              \A m \in process_layer_mapping[p][1] :
                  ~is_ready_for_execution(MethodState(m))]_vars

\* The worker of process p has just found its method unready, has found a
\* method unready at least as many times in this pass as there are methods on
\* the work-list, and no method on the work-list is ready.
NothingLeftReady(p) ==
    /\ p \in ProcessIndices
    /\ threads[p] = "alive"
    /\ worker[p].pc = "ready"
    /\ ~is_ready_for_execution(MethodState(worker[p].method))
    /\ \A k \in 1..Len(worker[p].remaining_methods) :
           ~is_ready_for_execution(MethodState(worker[p].remaining_methods[k]))
    /\ Bump(worker[p].remaining_method_index) >= Len(worker[p].remaining_methods) + 1

\* C28: in every layer, a worker for which no method left on the work-list is
\* ready yields the layer with its next step: it parks or moves to another
\* layer, and does not poll again.
WorkerYieldsStarvedLayer ==
    [][\A p \in ProcessRange :
          (NothingLeftReady(p) /\ worker'[p] # worker[p]) =>
              \/ worker'[p].pc = "done"
              \/ worker'[p].pc = "outer"
              \/ worker'[p].layer_index # worker[p].layer_index]_vars

\* The sources of the layer that the worker of process p is passing over.
LayerSources(p) ==
    {m \in process_layer_mapping[p][worker[p].layer_index + 1] : sinks[m] = 0}

\* The worker of process p ends its pass over a layer with this step, by
\* parking or with an empty work-list.
EndsPass(p) ==
    \/ Parks(p)
    \/ /\ p \in ProcessIndices
       /\ threads[p] = "alive"
       /\ worker[p].pc = "inner"
       /\ worker[p].remaining_methods = << >>
       /\ worker'[p] # worker[p]

\* C29: in each pass of a worker over a layer every source of the layer
\* executes exactly once: none returns from a second call in the pass, and a
\* pass that ends, by an empty work-list or by parking, has run each.
SourcesRunOncePerPass ==
    [][\A p \in ProcessRange :
          /\ (p \in ProcessIndices) => ~worker'[p].reran
          /\ EndsPass(p) => LayerSources(p) \subseteq worker[p].ran]_vars

\* C29 witness: in the graph "pair" the source X has run once in this pass,
\* the other method of the layer has just been polled and is unready, and
\* the worker is about to park.
SourceRanBesideUnready ==
    /\ scenario = "pair"
    /\ 0 \in DOMAIN worker
    /\ worker[0].pc = "ready"
    /\ worker[0].method = 2
    /\ worker[0].remaining_methods = << >>
    /\ worker[0].ran = {1}
    /\ emitted[1] >= 2

\* Process p is parked and a method of its first layer has a record in every
\* input queue.
ParkedWithRecord(p) ==
    /\ p \in ProcessIndices
    /\ threads[p] = "finished"
    /\ ~process_exited_manually[p]
    /\ \E m \in process_layer_mapping[p][1] :
          /\ sinks[m] > 0
          /\ \A i \in sink_indices(sinks[m]) : ~IsEmpty(input_queue[m][i])

\* C23: in reactive mode, under fair scheduling, a parked process whose
\* first-layer method has been delivered a record gets a worker again (or
\* the graph is being shut down), whether or not the producer emits anything
\* further.
ParkedProcessRewoken ==
    \A p \in ProcessRange :
        ParkedWithRecord(p) ~> (stop_event \/ (p \in ProcessIndices /\ threads[p] = "alive"))

\* DataMethod.active: a method with sinks and no active dependency is
\* inactive.
active(m) ==
    ~(sinks[m] > 0 /\ active_dependencies(dependency_to_configuration[m]) = {})

\* Method m is in a layer of a process of the built graph.
Planned(m) ==
    \E p \in DOMAIN process_layer_mapping :
        \E k \in 1..Len(process_layer_mapping[p]) : m \in process_layer_mapping[p][k]

\* C31: in every built graph, a method that has sinks and no active
\* dependency is in no layer of any process.
InactiveMethodsSkipped ==
    graph_phase = "built" => \A m \in methods : ~active(m) => ~Planned(m)

\* The row a non-sync append puts in the queue at this step.
NewAsyncRow == [v |-> appends', s |-> FALSE]

\* A step of append(item) with sync=False: the append counter grows and the
\* row of this append is not a sync-tagged one.
AsyncAppendStep ==
    /\ appends' = appends + 1
    /\ \A i \in 1..Len(queue'.arrow_table) :
          queue'.arrow_table[i] # [v |-> appends', s |-> TRUE]

\* C32: a non-sync append to a queue that holds capacity + pending_sync rows
\* removes exactly the oldest row and puts the new row last; a non-sync
\* append to a queue that holds fewer rows removes nothing and puts the new
\* row last.
OverflowDropsOldest ==
    [][AsyncAppendStep =>
          IF Len(queue.arrow_table) >= queue.size + queue.num_sync_items
          THEN queue'.arrow_table = Append(Tail(queue.arrow_table), NewAsyncRow)
          ELSE queue'.arrow_table = Append(queue.arrow_table, NewAsyncRow)]_vars

\* C32 witness: a non-sync append has just evicted the oldest of several
\* rows, one of them sync-tagged.
OverflowDropsOldestWitness ==
    /\ dropped.any
    /\ queue.num_sync_items > 0
    /\ Len(queue.arrow_table) >= 2
    /\ queue.arrow_table[Len(queue.arrow_table)] = [v |-> appends, s |-> FALSE]

\* The number of active sync entries of the dependency dict of m that feed
\* slot i.
SyncFeeders(m, i) ==
    Cardinality({j \in 1..Len(dependency_to_configuration[m]) :
                    /\ dependency_to_configuration[m][j].active
                    /\ dependency_to_configuration[m][j].sync
                    /\ i \in FedSlots(m, dependency_to_configuration[m][j])})

\* C33: the number of rows buffered in a consumer slot never exceeds a
\* constant of the graph and the sink configuration: the capacity of the slot
\* plus one row for each sync connection that feeds it.
SlotsBoundedByGraph ==
    \A m \in methods : \A i \in sink_indices(sinks[m]) :
        Len(input_queue[m][i].arrow_table) <=
            input_queue[m][i].size + SyncFeeders(m, i)

\* C34: num_sync_items is the number of sync-tagged rows in the queue.
PendingSyncCountsSyncRows ==
    queue.num_sync_items =
        Cardinality({i \in 1..Len(queue.arrow_table) : queue.arrow_table[i].s})

\* Every (producer, consumer) pair of connection c has an active entry in
\* the dependency dict of the consumer and in the dependent dict of the
\* producer: the producer's worker delivers to the consumer along c.
PairsActive(c, deps, dependents) ==
    \A k \in 1..Len(ConnectionPairs(c)) :
        LET pr == ConnectionPairs(c)[k]
        IN /\ DictHas(deps[pr.consumer], pr.producer)
           /\ DictGet(deps[pr.consumer], pr.producer).active
           /\ DictHas(dependents[pr.producer], pr.consumer)
           /\ DictGet(dependents[pr.producer], pr.consumer).active

\* The step is block() on the active connection c.
BlockStep(c) ==
    /\ c.active
    /\ c \notin connections'
    /\ [c EXCEPT !.active = FALSE] \in connections'

\* C36: block(c1) leaves every other connection c2 as it was: c2 keeps its
\* active flag, and if all its pairs were active they still are.
BlockLeavesOthers ==
    [][\A c1 \in connections : BlockStep(c1) =>
          \A c2 \in connections \ {c1} :
              /\ c2 \in connections'
              /\ PairsActive(c2, dependency_to_configuration,
                             dependent_to_configuration)
                   => PairsActive(c2, dependency_to_configuration',
                                  dependent_to_configuration')]_vars

\* C35: a create_connection call that is refused as a duplicate leaves the
\* dependency and dependent dicts of every method as they were.
RefusedCreateChangesNothing ==
    [][(connected' # connected /\ last_call'.refused) =>
          UNCHANGED <<dependency_to_configuration, dependent_to_configuration>>]_vars

\* An entry of a pair of the connection of key k is active.
EntryActive(k) ==
    \E j \in 1..Len(ConnectionPairs(KeyConnection(k, FALSE))) :
        LET pr == ConnectionPairs(KeyConnection(k, FALSE))[j]
        IN \/ /\ DictHas(dependency_to_configuration[pr.consumer], pr.producer)
              /\ DictGet(dependency_to_configuration[pr.consumer], pr.producer).active
           \/ /\ DictHas(dependent_to_configuration[pr.producer], pr.consumer)
              /\ DictGet(dependent_to_configuration[pr.producer], pr.consumer).active

\* C37: a connection that block_connection has blocked stays blocked: after
\* any later create_connection and block_connection calls, none of the
\* entries of its pairs is active.
BlockedStaysBlocked ==
    \A o \in blocked_flags : ~EntryActive(o[2])

\* The worker of process p is inside a pass over a layer.
InPass(p) ==
    /\ p \in ProcessIndices
    /\ threads[p] = "alive"
    /\ worker[p].pc \in {"inner", "ready", "execute", "deliver", "notify", "requeue"}

\* No further record is delivered to the methods of process p: the worker of
\* every other process has died of a failed execution (it is not started
\* again).
NoFurtherRecord(p) == \A q \in ProcessIndices \ {p} : q \in failed

\* The pass of the worker of process p over the only layer of the process has
\* ended: the worker is back at the outer loop, or has returned.
PassEnded(p) ==
    /\ p \in ProcessIndices
    /\ worker[p].pc \in {"outer", "done"}

\* C38: whatever the sink configuration, once no further record is delivered
\* to the methods of a process, the pass of its worker over a layer ends
\* (stated for the processes that have one layer).
PassEndsWithoutRecords ==
    \A p \in ProcessRange :
        (/\ InPass(p)
         /\ Len(process_layer_mapping[p]) = 1
         /\ NoFurtherRecord(p)) ~> PassEnded(p)

\* Process p has no worker (it is parked, or was never started) and a record
\* delivered to a method of its first layer is still in that method's queue.
RecordWaiting(p) ==
    /\ threads[p] # "alive"
    /\ ~process_exited_manually[p]
    /\ \E m \in process_layer_mapping[p][1] :
          \E i \in sink_indices(sinks[m]) : ~IsEmpty(input_queue[m][i])

\* No worker thread is running and no delivered record waits for a worker.
Quiescent ==
    \A p \in ProcessIndices : threads[p] # "alive" /\ ~RecordWaiting(p)

\* C39: in reactive mode, when execute() returns and no shutdown was
\* signalled, the graph is quiescent.
QuiescentOnReturn ==
    [][(main_pc = "join" /\ main_pc' = "returned" /\ ~stop_event') => Quiescent']_vars
====
